---- MODULE Spec2Model ----
(***************************************************************************)
(* A model of staged (src-tauri/src):                                      *)
(*   - compute_alignments_from_hunks (diff/git.rs), the hunk-driven        *)
(*     assembler, as an operator applied by the action ComputeAlignments;  *)
(*   - the delta and hunk callbacks of collect_file_changes (diff/git.rs), *)
(*     which normalise git's 1-indexed hunks, as the actions DeltaCallback *)
(*     and HunkCallback;                                                   *)
(*   - the per-file loop of compute_diff (diff/git.rs) and get_file_diff   *)
(*     (git/diff/mod.rs), which build the file-diff results;               *)
(*   - FileContent::is_binary_data (diff/types.rs);                        *)
(*   - the MatchFinder and the match-driven AlignmentAssembler, which the  *)
(*     design describes (spec.md 4.2, 4.3);                                *)
(*   - ReviewStore (diff/review.rs), the SQLite tables of reviews;         *)
(*   - the path filters should_trigger_refresh (watcher/mod.rs and         *)
(*     diff/watcher.rs);                                                   *)
(*   - RepoWatcher (diff/watcher.rs), which throttles files-changed;       *)
(*   - RefreshController (refresh.rs) with its AdaptiveProvider            *)
(*     (git/provider.rs) and NotifyWatcher (watcher/mod.rs): the command   *)
(*     thread and the watcher's callback thread, step by step.             *)
(***************************************************************************)
EXTENDS Integers, Sequences, FiniteSets, TLC

VARIABLES
    \* the arguments of one call of compute_alignments_from_hunks
    hunks,              \* &[Hunk]
    before,             \* &Option<File>
    after,              \* &Option<File>
    \* "call" before the call, then "returned" or "panicked"; in
    \* collect_file_changes "foreach", then "collected"
    pc,
    \* the returned Vec<Alignment>
    alignments,
    \* collect_file_changes: the accumulator, the current file, and the raw
    \* hunk records git has handed to the hunk callback so far
    file_changes,
    current_file_idx,
    reported,
    \* compute_diff: the Vec<FileDiff> under construction; get_file_diff: the
    \* FileDiff returned
    result,
    file_diff,
    \* is_binary_data: the byte slice and the returned flag
    bytes,
    binary,
    \* MatchFinder: the two line sequences, the before cursor, the used after
    \* positions, the matches so far, and the used set each match started with
    before_lines,
    after_lines,
    cursor,
    used,
    matches,
    started,
    \* the alignments of the assembler re-run on the unchanged spans
    reassembled,
    \* ReviewStore: the four tables of the database, and the last call with
    \* what it returned
    store,
    last,
    \* the clock, in milliseconds
    now,
    \* should_trigger_refresh: the two arguments and what each of the two
    \* implementations returned
    event_path,
    repo_root,
    triggers,
    \* RepoWatcher: the WatcherInner behind the mutex, the last_emit the
    \* running debouncer's callback shares, and the times at which
    \* files-changed was emitted
    inner,
    last_emit,
    emitted,
    \* RefreshController: the RefreshState behind the mutex, the provider's
    \* use_cli flag, the NotifyWatcher, the position and locals of each
    \* thread, the events emitted since the latest start, the status fetches
    \* begun, and whether one has begun since the provider's latest reset
    state,
    use_cli,
    watcher,
    thread,
    events,
    fetches,
    called,
    \* the global review store: the OnceLock STORE, the position, call and
    \* latest result of each calling thread, whether init_store was ever
    \* called, and what the first init_store to return returned, of all
    \* calls and of those that got the app data directory
    STORE,
    caller,
    init_called,
    first_init,
    \* discard_region: the working file's and the base blob's content, the
    \* connection, and the content written
    current_content,
    base_content,
    connection,
    written,
    \* get_untracked_file_diff: the file's bytes and the FileDiff returned
    untracked_bytes,
    untracked_diff

collectVars == <<file_changes, current_file_idx, reported>>
alignVars == <<hunks, before, after, alignments>>
diffVars == <<result, file_diff>>
binaryVars == <<bytes, binary>>
matchVars == <<before_lines, after_lines, cursor, used, matches, started>>
reviewVars == <<store, last>>
filterVars == <<event_path, repo_root, triggers>>
repoWatcherVars == <<inner, last_emit, emitted>>
refreshVars == <<state, use_cli, watcher, thread, events, fetches, called>>
handleVars == <<STORE, caller, init_called, first_init>>
discardVars == <<current_content, base_content, connection, written>>
untrackedVars == <<untracked_bytes, untracked_diff>>
actionVars == <<handleVars, discardVars, untrackedVars>>
watchingVars == <<now, filterVars, repoWatcherVars, refreshVars, actionVars>>
vars == <<hunks, before, after, pc, alignments,
          file_changes, current_file_idx, reported,
          result, file_diff, bytes, binary,
          before_lines, after_lines, cursor, used, matches, started,
          reassembled, store, last,
          now, event_path, repo_root, triggers, inner, last_emit, emitted,
          state, use_cli, watcher, thread, events, fetches, called,
          STORE, caller, init_called, first_init,
          current_content, base_content, connection, written,
          untracked_bytes, untracked_diff>>

----------------------------------------------------------------------------
(* Bounds of the model *)

\* longest file, in lines
MaxLen == 3
\* most hunks in one hunk list
MaxHunks == 2
\* an arbitrary (possibly malformed) hunk list: the sum of all its fields
MaxSum == 3
\* u32 is modelled at this width (TLC's integers hold less than 2^32)
Width == 16
\* collect_file_changes: deltas reported, hunk records reported, and the sum
\* of all fields of the raw hunk records
MaxDeltas == 2
MaxReported == 2
MaxRawSum == 4
\* compute_diff: changed files of one diff, distinct paths, and the longest
\* file and most hunks of a changed file
MaxEntries == 2
MaxPaths == 2
MaxDiffLen == 1
MaxDiffHunks == 1
\* is_binary_data: the longest short slice, and how far the long slices stay
\* short of the checked prefix or reach beyond it
MaxShort == 2
MaxBeyond == 2
\* MatchFinder: the longest line sequence and the number of distinct lines
MaxLines == 3
MaxSymbols == 2
\* ReviewStore: the most rows the three child tables hold together
MaxRows == 2
\* deepest path below the watched root, in components
MaxDepth == 3
\* most clock steps of a run, and most files-changed events
MaxTicks == 4
MaxEmits == 2
\* most status fetches of a run
MaxFetches == 3
\* most characters of a file, and the greatest line number of a span
MaxContent == 3

Modulus == 2 ^ Width

----------------------------------------------------------------------------
(* Data types: diff/types.rs *)

Span(start, end) == [start |-> start, end |-> end]

\* Span::len: end.saturating_sub(start)
SpanLen(s) == IF s.end >= s.start THEN s.end - s.start ELSE 0

Alignment(b, a, changed) == [before |-> b, after |-> a, changed |-> changed]

Hunk(os, ol, ns, nl) ==
    [old_start |-> os, old_lines |-> ol, new_start |-> ns, new_lines |-> nl]

\* Option<File>: absent, or a file whose content is Binary or Text{lines}
NoFile == [kind |-> "none", lines |-> 0]
BinaryFile == [kind |-> "binary", lines |-> 0]
TextFile(n) == [kind |-> "text", lines |-> n]

\* FileContent::lines: the lines of a text, the empty slice for Binary
Lines(f) == IF f.kind = "text" THEN f.lines ELSE 0

----------------------------------------------------------------------------
(* The state of the components a run does not exercise *)

\* Option<T>: None, and Some(x)
None == <<>>
Some(x) == <<x>>
UnwrapOr(o, d) == IF o = None THEN d ELSE o[1]

\* no alignment call is under way
AlignIdle ==
    /\ hunks = <<>>
    /\ before = NoFile
    /\ after = NoFile
    /\ alignments = <<>>

\* collect_file_changes has not run
CollectIdle ==
    /\ file_changes = <<>>
    /\ current_file_idx = 0
    /\ reported = <<>>

\* no file-diff result has been built
NoFileDiff == [status |-> "none", is_binary |-> FALSE, ranges |-> <<>>]

DiffIdle ==
    /\ result = <<>>
    /\ file_diff = NoFileDiff

\* is_binary_data has not been called
BinaryIdle ==
    /\ bytes = <<>>
    /\ binary = FALSE

\* the MatchFinder has not been called
MatchIdle ==
    /\ before_lines = <<>>
    /\ after_lines = <<>>
    /\ cursor = 0
    /\ used = {}
    /\ matches = <<>>
    /\ started = <<>>

\* the assembler has not been re-run
IdemIdle == reassembled = <<>>

\* the database as init_schema leaves a new file: four empty tables
\* (each table is the sequence of its rows, in insertion order)
EmptyStore ==
    [reviews |-> <<>>, reviewed_files |-> <<>>, comments |-> <<>>, edits |-> <<>>]

\* no call of the store has been made; a call is recorded with its
\* arguments, whether it returned Ok, and the number of child rows it found
NoCall == [op |-> "none", id |-> 0, arg |-> 0, text |-> 0, ok |-> TRUE,
           rows |-> 0]

ReviewIdle ==
    /\ store = EmptyStore
    /\ last = NoCall

\* should_trigger_refresh has not been called
FilterIdle ==
    /\ event_path = <<>>
    /\ repo_root = <<>>
    /\ triggers = None

\* Instant::now() - Duration::from_secs(10): "Allow immediate first emit" and
\* "Allow immediate first refresh"
EmitAllowance == 10000
RefreshAllowance == 10000

\* RepoWatcher::new
WatcherInner_new(t) ==
    [debouncer |-> None, repo_path |-> None, last_emit |-> t - EmitAllowance]

\* no RepoWatcher is in use
RepoWatcherIdle ==
    /\ inner = WatcherInner_new(0)
    /\ last_emit = None
    /\ emitted = <<>>

\* RefreshState::default
RefreshState_default(t) ==
    [last_refresh |-> t - RefreshAllowance,
     last_duration |-> 0,
     slow_notification_sent |-> FALSE,
     repo_path |-> None]

\* the two threads that run the controller's code: the one that serves the
\* commands, and the debouncer's, which runs the on_change callback
Threads == {"command", "callback"}

\* a thread outside every call: the locals of a call at its start, with how
\* the thread's last call ended and what it returned
NoLocals ==
    [pc |-> "idle", op |-> "none", arg |-> None, repo_path |-> None,
     start |-> 0, used_cli |-> FALSE, duration |-> 0,
     should_notify_slow |-> FALSE,
     fetched |-> None, recorded |-> FALSE, emitted |-> FALSE,
     ended |-> "none", ret |-> "none"]

\* no event has been emitted
NoEvents == [status_updated |-> 0, slow_repo_detected |-> 0]

\* RefreshController::new, before any command
RefreshIdle ==
    /\ state = RefreshState_default(0)
    /\ use_cli = FALSE
    /\ watcher = [debouncer |-> None]
    /\ thread = [t \in Threads |-> NoLocals]
    /\ events = NoEvents
    /\ fetches = 0
    /\ called = FALSE

\* the threads that call init_store and get_store
Callers == {"setup", "command"}

\* no init_store has returned
NoInit == [returned |-> None, opened |-> None]

\* a thread outside every call, with its latest call, what it returned, and
\* what was known of init_store when the call was made
NoCaller ==
    [pc |-> "idle", op |-> "none", ret |-> None,
     seen_called |-> FALSE, seen |-> NoInit]

\* STORE before any init_store
HandleIdle ==
    /\ STORE = None
    /\ caller = [t \in Callers |-> NoCaller]
    /\ init_called = FALSE
    /\ first_init = NoInit

\* no discard_region call
DiscardIdle ==
    /\ current_content = <<>>
    /\ base_content = <<>>
    /\ connection = None
    /\ written = None

\* no get_untracked_file_diff call
UntrackedIdle ==
    /\ untracked_bytes = <<>>
    /\ untracked_diff = None

\* no use of the store handle, of discard_region or of untracked files
ActionsIdle ==
    /\ HandleIdle
    /\ DiscardIdle
    /\ UntrackedIdle

\* neither a watcher nor the controller is in use
WatchingIdle ==
    /\ now = 0
    /\ FilterIdle
    /\ RepoWatcherIdle
    /\ RefreshIdle
    /\ ActionsIdle

----------------------------------------------------------------------------
(* compute_alignments_from_hunks: diff/git.rs *)

\* f.as_ref().map(|f| f.content.lines().len() as u32).unwrap_or(0)
FileLen(f) == IF f.kind = "none" THEN 0 ELSE Lines(f) % Modulus

\* the "Handle empty files" guard
BothEmptyWrong(before_len, after_len) == before_len = 0 \/ after_len = 0
BothEmpty(before_len, after_len) == before_len = 0 /\ after_len = 0

\* the result for an empty hunk list (files not both empty)
NoHunkAlignmentsAddedWrong(before_len, after_len) ==
    IF before_len = 0
    THEN <<Alignment(Span(0, 0), Span(0, after_len), FALSE)>>
    ELSE IF after_len = 0
    THEN <<Alignment(Span(0, before_len), Span(0, 0), FALSE)>>
    ELSE <<Alignment(Span(0, before_len), Span(0, after_len), FALSE)>>
NoHunkAlignmentsFallbackWrong(before_len, after_len) ==
    IF before_len = 0
    THEN <<Alignment(Span(0, 0), Span(0, after_len), TRUE)>>
    ELSE IF after_len = 0
    THEN <<Alignment(Span(0, before_len), Span(0, 0), TRUE)>>
    ELSE <<Alignment(Span(0, before_len), Span(0, after_len), TRUE)>>
NoHunkAlignments(before_len, after_len) ==
    IF before_len = 0
    THEN <<Alignment(Span(0, 0), Span(0, after_len), TRUE)>>
    ELSE IF after_len = 0
    THEN <<Alignment(Span(0, before_len), Span(0, 0), TRUE)>>
    ELSE <<Alignment(Span(0, before_len), Span(0, after_len), FALSE)>>

\* The loop state: the vector built so far, the two cursors, and whether an
\* overflow check has panicked.
LoopStart ==
    [alignments |-> <<>>, before_pos |-> 0, after_pos |-> 0, panicked |-> FALSE]

\* "Unchanged region before this hunk": the filler pushed before the hunk
\* (the subtractions wrap when the build does not trap overflow)
GapFillerWrong(st, hunk) ==
    IF st.before_pos < hunk.old_start
    THEN <<Alignment(Span(st.before_pos, hunk.old_start),
                     Span(st.after_pos, hunk.new_start), FALSE)>>
    ELSE <<>>
GapFiller(st, hunk) ==
    IF st.before_pos < hunk.old_start \/ st.after_pos < hunk.new_start
    THEN LET before_gap == (hunk.old_start - st.before_pos) % Modulus
             after_gap == (hunk.new_start - st.after_pos) % Modulus
         IN  IF before_gap > 0 \/ after_gap > 0
             THEN <<Alignment(Span(st.before_pos, hunk.old_start),
                              Span(st.after_pos, hunk.new_start), FALSE)>>
             ELSE <<>>
    ELSE <<>>

\* the subtractions of the gap go below zero
GapUnderflows(st, hunk) ==
    /\ st.before_pos < hunk.old_start \/ st.after_pos < hunk.new_start
    /\ hunk.old_start < st.before_pos \/ hunk.new_start < st.after_pos

\* hunk_before_end, hunk_after_end
HunkBeforeEnd(hunk) == (hunk.old_start + hunk.old_lines) % Modulus
HunkAfterEndWrong(hunk) == (hunk.new_start + hunk.old_lines) % Modulus
HunkAfterEnd(hunk) == (hunk.new_start + hunk.new_lines) % Modulus

\* the additions of the hunk's ends exceed u32
EndOverflows(hunk) ==
    \/ hunk.old_start + hunk.old_lines >= Modulus
    \/ hunk.new_start + hunk.new_lines >= Modulus

\* "The hunk itself (changed region)"
HunkAlignment(hunk) ==
    Alignment(Span(hunk.old_start, HunkBeforeEnd(hunk)),
              Span(hunk.new_start, HunkAfterEnd(hunk)), TRUE)

\* one iteration of `for hunk in hunks`
HunkStep(st, hunk, checks) ==
    IF st.panicked
    THEN st
    ELSE IF checks /\ (GapUnderflows(st, hunk) \/ EndOverflows(hunk))
    THEN [st EXCEPT !.panicked = TRUE]
    ELSE [alignments |-> st.alignments \o GapFiller(st, hunk)
                                       \o <<HunkAlignment(hunk)>>,
          before_pos |-> HunkBeforeEnd(hunk),
          after_pos |-> HunkAfterEnd(hunk),
          panicked |-> FALSE]

\* the loop over the first n hunks
RECURSIVE HunkLoop(_, _, _)
HunkLoop(hs, n, checks) ==
    IF n = 0 THEN LoopStart ELSE HunkStep(HunkLoop(hs, n - 1, checks), hs[n], checks)

\* "Unchanged region after the last hunk"
TrailingFillerWrong(st, before_len, after_len) ==
    IF st.before_pos < before_len
    THEN <<Alignment(Span(st.before_pos, before_len),
                     Span(st.after_pos, after_len), FALSE)>>
    ELSE <<>>
TrailingFiller(st, before_len, after_len) ==
    IF st.before_pos < before_len \/ st.after_pos < after_len
    THEN <<Alignment(Span(st.before_pos, before_len),
                     Span(st.after_pos, after_len), FALSE)>>
    ELSE <<>>

\* The function: what it returns, or that it panicked.
compute_alignments_from_hunks(hs, b, a, checks) ==
    LET before_len == FileLen(b)
        after_len == FileLen(a)
    IN  IF BothEmpty(before_len, after_len)
        THEN [panicked |-> FALSE, alignments |-> <<>>]
        ELSE IF hs = <<>>
        THEN [panicked |-> FALSE,
              alignments |-> NoHunkAlignments(before_len, after_len)]
        ELSE LET st == HunkLoop(hs, Len(hs), checks)
             IN  IF st.panicked
                 THEN [panicked |-> TRUE, alignments |-> <<>>]
                 ELSE [panicked |-> FALSE,
                       alignments |-> st.alignments
                                      \o TrailingFiller(st, before_len, after_len)]

----------------------------------------------------------------------------
(* The inputs of compute_alignments_from_hunks *)

Files == {NoFile, BinaryFile} \cup {TextFile(n) : n \in 0..MaxLen}

\* the hunks that lie within files of bl and al lines
HunksWithin(bl, al) ==
    { h \in [old_start : 0..bl, old_lines : 0..bl, new_start : 0..al, new_lines : 0..al] :
        /\ h.old_start + h.old_lines <= bl
        /\ h.new_start + h.new_lines <= al }

\* hunk h starts, on both sides, no earlier than the list l ends
Follows(l, h) ==
    \/ l = <<>>
    \/ /\ l[Len(l)].old_start + l[Len(l)].old_lines <= h.old_start
       /\ l[Len(l)].new_start + l[Len(l)].new_lines <= h.new_start

\* the lists of L, each extended by every hunk of H that follows it
Extended(L, H) ==
    { Append(p[1], p[2]) : p \in { q \in L \X H : Follows(q[1], q[2]) } }

\* the hunk lists of at most k hunks that git's contract allows for files of
\* bl and al lines: ascending, non-overlapping, within bounds
RECURSIVE WellFormedLists(_, _, _)
WellFormedLists(bl, al, k) ==
    IF k = 0
    THEN {<<>>}
    ELSE LET shorter == WellFormedLists(bl, al, k - 1)
         IN  shorter \cup
             Extended({ l \in shorter : Len(l) = k - 1 }, HunksWithin(bl, al))

\* every hunk whose four fields sum to at most s
HunksOfSum(s) ==
    { h \in [old_start : 0..s, old_lines : 0..s, new_start : 0..s, new_lines : 0..s] :
        h.old_start + h.old_lines + h.new_start + h.new_lines <= s }

HunkSum(h) == h.old_start + h.old_lines + h.new_start + h.new_lines

\* every hunk list of at most k hunks whose fields sum to at most s
RECURSIVE ArbitraryLists(_, _)
ArbitraryLists(s, k) ==
    IF k = 0
    THEN {<<>>}
    ELSE {<<>>} \cup
         UNION { { <<h>> \o r : r \in ArbitraryLists(s - HunkSum(h), k - 1) }
                 : h \in HunksOfSum(s) }

\* an input that keeps the caller contract
WellFormedInput ==
    /\ before \in Files
    /\ after \in Files
    /\ hunks \in WellFormedLists(FileLen(before), FileLen(after), MaxHunks)

\* an input whose hunk list is any list at all, the contract kept or not
ArbitraryInput ==
    /\ hunks \in ArbitraryLists(MaxSum, MaxHunks)
    /\ before \in Files
    /\ after \in Files

InitAlign ==
    /\ WellFormedInput \/ ArbitraryInput
    /\ pc = "call"
    /\ alignments = <<>>
    /\ file_changes = <<>>
    /\ current_file_idx = 0
    /\ reported = <<>>
    /\ DiffIdle /\ BinaryIdle /\ MatchIdle /\ IdemIdle /\ ReviewIdle
    /\ WatchingIdle

\* The call of compute_alignments_from_hunks(&hunks, &before, &after). Whether
\* integer overflow panics (overflow checks on, as in a debug build) or wraps
\* (off, as in a release build) is the build's choice.
ComputeAlignments ==
    /\ pc = "call"
    /\ \E overflow_checks \in BOOLEAN :
          LET r == compute_alignments_from_hunks(hunks, before, after, overflow_checks)
          IN  /\ pc' = IF r.panicked THEN "panicked" ELSE "returned"
              /\ alignments' = r.alignments
    /\ UNCHANGED <<hunks, before, after>>
    /\ UNCHANGED collectVars
    /\ UNCHANGED <<diffVars, binaryVars, matchVars, reassembled, reviewVars, watchingVars>>

NextAlign == ComputeAlignments

SpecAlign == InitAlign /\ [][NextAlign]_vars

----------------------------------------------------------------------------
(* collect_file_changes: diff/git.rs *)

\* "Git uses 1-indexed line numbers, convert to 0-indexed. Also handle the
\* special case where old_start/new_start is 0 for empty files"
NormalizeStartWrong(s) == (s - 1) % Modulus
NormalizeStart(s) == IF s = 0 THEN 0 ELSE s - 1

\* the Hunk the hunk callback builds from git's record
NormalizeHunk(raw) ==
    Hunk(NormalizeStart(raw.old_start), raw.old_lines,
         NormalizeStart(raw.new_start), raw.new_lines)

\* the FileChange the delta callback pushes for the n-th delta (n stands for
\* the delta's paths and status)
FileChange(n) == [delta |-> n, hunks |-> <<>>]

\* the sum of all fields of the raw records reported so far
RECURSIVE ReportedSum(_)
ReportedSum(rs) ==
    IF rs = <<>> THEN 0 ELSE HunkSum(rs[Len(rs)].raw) + ReportedSum(SubSeq(rs, 1, Len(rs) - 1))

InitCollect ==
    /\ pc = "foreach"
    /\ file_changes = <<>>
    /\ current_file_idx = 0
    /\ reported = <<>>
    /\ hunks = <<>>
    /\ before = NoFile
    /\ after = NoFile
    /\ alignments = <<>>
    /\ DiffIdle /\ BinaryIdle /\ MatchIdle /\ IdemIdle /\ ReviewIdle
    /\ WatchingIdle

\* a file callback that sets the current file only once
DeltaCallbackWrong ==
    /\ pc = "foreach"
    /\ Len(file_changes) < MaxDeltas
    /\ file_changes' = Append(file_changes, FileChange(Len(file_changes) + 1))
    /\ current_file_idx' = IF current_file_idx = 0 THEN 1 ELSE current_file_idx
    /\ UNCHANGED <<pc, reported>>
    /\ UNCHANGED <<hunks, before, after, alignments>>
    /\ UNCHANGED <<diffVars, binaryVars, matchVars, reassembled, reviewVars, watchingVars>>

\* the file callback of diff.foreach: a new FileChange becomes the current one
DeltaCallback ==
    /\ pc = "foreach"
    /\ Len(file_changes) < MaxDeltas
    /\ file_changes' = Append(file_changes, FileChange(Len(file_changes) + 1))
    /\ current_file_idx' = Len(file_changes')
    /\ UNCHANGED <<pc, reported>>
    /\ UNCHANGED <<hunks, before, after, alignments>>
    /\ UNCHANGED <<diffVars, binaryVars, matchVars, reassembled, reviewVars, watchingVars>>

\* the hunk callback of diff.foreach, handed git's record raw
HunkCallback(raw) ==
    /\ pc = "foreach"
    /\ Len(reported) < MaxReported
    /\ LET h == NormalizeHunk(raw)
       IN  file_changes' =
             IF current_file_idx # 0
             THEN [file_changes EXCEPT ![current_file_idx].hunks = Append(@, h)]
             ELSE file_changes
    /\ reported' = Append(reported, [file |-> Len(file_changes), raw |-> raw])
    /\ UNCHANGED <<pc, current_file_idx>>
    /\ UNCHANGED <<hunks, before, after, alignments>>
    /\ UNCHANGED <<diffVars, binaryVars, matchVars, reassembled, reviewVars, watchingVars>>

\* diff.foreach returns: Ok(file_changes.into_inner())
ForeachReturns ==
    /\ pc = "foreach"
    /\ pc' = "collected"
    /\ UNCHANGED <<file_changes, current_file_idx, reported>>
    /\ UNCHANGED <<hunks, before, after, alignments>>
    /\ UNCHANGED <<diffVars, binaryVars, matchVars, reassembled, reviewVars, watchingVars>>

\* git reports the hunks of a delta after the delta itself
ReportHunk ==
    \E raw \in HunksOfSum(MaxRawSum - ReportedSum(reported)) :
        /\ current_file_idx # 0
        /\ HunkCallback(raw)

NextCollect == DeltaCallback \/ ReportHunk \/ ForeachReturns

SpecCollect == InitCollect /\ [][NextCollect]_vars

----------------------------------------------------------------------------
(* AlignmentAssembler: the shared core of the design (spec.md 4.3) *)

\* an input region: a Hunk (a changed region) or a Match (an unchanged one)
Region(bs, as, bn, an) ==
    [before_start |-> bs, after_start |-> as, before_len |-> bn, after_len |-> an]

HunkRegion(h) == Region(h.old_start, h.new_start, h.old_lines, h.new_lines)

\* Match: (before_start, after_start, length)
Match(bs, as, n) == [before_start |-> bs, after_start |-> as, length |-> n]

MatchRegion(m) == Region(m.before_start, m.after_start, m.length, m.length)

HunkRegions(hs) == [i \in 1..Len(hs) |-> HunkRegion(hs[i])]
MatchRegions(ms) == [i \in 1..Len(ms) |-> MatchRegion(ms[i])]

\* "Initialize before_pos = after_pos = 0."
AssemblerStart == [alignments |-> <<>>, before_pos |-> 0, after_pos |-> 0]

\* "If there is a gap between the cursor positions and the region's start on
\* either side, emit a filler Alignment covering that gap": a filler carries
\* the flag its regions do not
RegionFiller(st, r, region_changed) ==
    IF st.before_pos < r.before_start \/ st.after_pos < r.after_start
    THEN << Alignment(Span(st.before_pos, r.before_start),
                      Span(st.after_pos, r.after_start),
                      ~region_changed) >>
    ELSE <<>>

\* "Emit the region itself ... using the region's own start/length to compute
\* both spans. Advance both cursors to the region's end."
RegionStep(st, r, region_changed) ==
    [alignments |-> st.alignments \o RegionFiller(st, r, region_changed)
                    \o << Alignment(Span(r.before_start, r.before_start + r.before_len),
                                     Span(r.after_start, r.after_start + r.after_len),
                                     region_changed) >>,
     before_pos |-> r.before_start + r.before_len,
     after_pos |-> r.after_start + r.after_len]

RECURSIVE RegionLoop(_, _, _)
RegionLoop(rs, n, region_changed) ==
    IF n = 0
    THEN AssemblerStart
    ELSE RegionStep(RegionLoop(rs, n - 1, region_changed), rs[n], region_changed)

\* "After the last region, if either cursor has not reached the corresponding
\* buffer's total length, emit one final trailing filler"
RegionTrailingFiller(st, bl, al, region_changed) ==
    IF st.before_pos < bl \/ st.after_pos < al
    THEN << Alignment(Span(st.before_pos, bl), Span(st.after_pos, al),
                      ~region_changed) >>
    ELSE <<>>

\* "Degenerate-input policy": no region at all
NoRegionAlignments(bl, al) ==
    IF bl = 0
    THEN << Alignment(Span(0, 0), Span(0, al), TRUE) >>
    ELSE IF al = 0
         THEN << Alignment(Span(0, bl), Span(0, 0), TRUE) >>
         ELSE << Alignment(Span(0, bl), Span(0, al), FALSE) >>

\* the Alignment list of the regions rs for buffers of bl and al lines;
\* region_changed is TRUE for hunks and FALSE for matches
AlignmentAssembler(rs, bl, al, region_changed) ==
    IF bl = 0 /\ al = 0
    THEN <<>>
    ELSE IF rs = <<>>
         THEN NoRegionAlignments(bl, al)
         ELSE LET st == RegionLoop(rs, Len(rs), region_changed)
              IN  st.alignments \o RegionTrailingFiller(st, bl, al, region_changed)

----------------------------------------------------------------------------
(* compute_diff: diff/git.rs; get_file_diff: git/diff/mod.rs *)

\* diff::types::FileDiff; path stands for what FileDiff::path() returns
FileDiff(path, b, a, as) ==
    [path |-> path, before |-> b, after |-> a, alignments |-> as]

\* FileDiff::is_binary: "Returns true if either side is binary."
is_binary(fd) == fd.before.kind = "binary" \/ fd.after.kind = "binary"

\* x put into the sorted list s, after the entries whose path is not greater
RECURSIVE InsertByPath(_, _)
InsertByPath(s, x) ==
    IF s = <<>>
    THEN <<x>>
    ELSE IF s[Len(s)].path <= x.path
         THEN Append(s, x)
         ELSE Append(InsertByPath(SubSeq(s, 1, Len(s) - 1), x), s[Len(s)])

\* result.sort_by(|a, b| a.path().cmp(b.path())): a stable sort
RECURSIVE SortByPath(_)
SortByPath(s) ==
    IF s = <<>>
    THEN <<>>
    ELSE InsertByPath(SortByPath(SubSeq(s, 1, Len(s) - 1)), s[Len(s)])

\* what load_file and load_file_from_workdir return: None, or a File whose
\* content is Binary or Text
DiffFiles == {NoFile, BinaryFile} \cup {TextFile(n) : n \in 0..MaxDiffLen}

\* the FileChange entries collect_file_changes can return for one delta
Changes ==
    { [delta |-> p, hunks |-> hs] :
        p \in 1..MaxPaths,
        hs \in WellFormedLists(MaxDiffLen, MaxDiffLen, MaxDiffHunks) }

\* the lists of at most k changes
RECURSIVE ChangeLists(_)
ChangeLists(k) ==
    IF k = 0
    THEN {<<>>}
    ELSE LET shorter == ChangeLists(k - 1)
         IN  shorter \cup
             { Append(p[1], p[2]) :
                 p \in { l \in shorter : Len(l) = k - 1 } \X Changes }

\* the strings get_file_diff reports as status
Statuses == {"added", "deleted", "modified"}

\* Option<String>, the content get_before_content and get_after_content
\* return: None for a missing file or a binary blob
Contents == {NoFile} \cup {TextFile(n) : n \in 0..MaxDiffLen}

\* side_by_side::build: the ranges of a text file (the hunk-driven assembler)
build(before_content, after_content, hs) ==
    AlignmentAssembler(HunkRegions(hs), FileLen(before_content),
                       FileLen(after_content), TRUE)

InitDiff ==
    /\ \/ /\ pc = "loop"
          /\ file_changes \in ChangeLists(MaxEntries)
       \/ /\ pc = "get_file_diff"
          /\ file_changes = <<>>
    /\ current_file_idx = 0
    /\ reported = <<>>
    /\ AlignIdle /\ DiffIdle /\ BinaryIdle /\ MatchIdle /\ IdemIdle /\ ReviewIdle
    /\ WatchingIdle

\* one turn of "for change in file_changes": both files are loaded, an entry
\* without a loadable file is skipped, any other gets its alignments
DiffEntry ==
    /\ pc = "loop"
    /\ file_changes # <<>>
    /\ LET change == Head(file_changes)
       IN  \E before_file \in DiffFiles, after_file \in DiffFiles,
              overflow_checks \in BOOLEAN :
              /\ change.hunks \in WellFormedLists(FileLen(before_file),
                                                  FileLen(after_file), MaxDiffHunks)
              /\ IF before_file = NoFile /\ after_file = NoFile
                 THEN UNCHANGED <<result, pc>>
                 ELSE LET r == compute_alignments_from_hunks(
                                   change.hunks, before_file, after_file,
                                   overflow_checks)
                      IN  IF r.panicked
                          THEN pc' = "panicked" /\ UNCHANGED result
                          ELSE /\ result' = Append(result,
                                       FileDiff(change.delta, before_file,
                                                after_file, r.alignments))
                               /\ UNCHANGED pc
    /\ file_changes' = Tail(file_changes)
    /\ UNCHANGED <<current_file_idx, reported, file_diff>>
    /\ UNCHANGED <<alignVars, binaryVars, matchVars, reassembled, reviewVars, watchingVars>>

\* the loop is over: "Sort by path", Ok(result)
ComputeDiffReturns ==
    /\ pc = "loop"
    /\ file_changes = <<>>
    /\ result' = SortByPath(result)
    /\ pc' = "diffed"
    /\ UNCHANGED <<file_changes, current_file_idx, reported, file_diff>>
    /\ UNCHANGED <<alignVars, binaryVars, matchVars, reassembled, reviewVars, watchingVars>>

\* get_file_diff(repo_path, file_path, staged): what parse_diff reports
\* (status, is_binary, hunks) and the two contents come from the repository
GetFileDiff ==
    /\ pc = "get_file_diff"
    /\ \E before_content \in Contents, after_content \in Contents,
          status \in Statuses, parse_is_binary \in BOOLEAN :
          \E hs \in WellFormedLists(FileLen(before_content),
                                    FileLen(after_content), MaxDiffHunks) :
             file_diff' =
                 IF parse_is_binary
                 THEN [status |-> status, is_binary |-> TRUE, ranges |-> <<>>]
                 ELSE [status |-> status, is_binary |-> FALSE,
                       ranges |-> build(before_content, after_content, hs)]
    /\ pc' = "got"
    /\ UNCHANGED <<file_changes, current_file_idx, reported, result>>
    /\ UNCHANGED <<alignVars, binaryVars, matchVars, reassembled, reviewVars, watchingVars>>

NextDiff == DiffEntry \/ ComputeDiffReturns \/ GetFileDiff

SpecDiff == InitDiff /\ [][NextDiff]_vars

----------------------------------------------------------------------------
(* FileContent::is_binary_data: diff/types.rs *)

\* "Check for null bytes in first 8KB"
BinaryCheckLen == 8192

Min(x, y) == IF x <= y THEN x ELSE y

\* a check that looks at the whole slice
is_binary_data_whole(bs) == \E i \in 1..Len(bs) : bs[i] = 0

\* let check_len = bytes.len().min(8192); bytes[..check_len].contains(&0)
is_binary_data(bs) ==
    LET check_len == Min(Len(bs), BinaryCheckLen)
    IN  \E i \in 1..check_len : bs[i] = 0

\* the lengths of the slices tried: short ones, and ones around the end of
\* the checked prefix
SliceLens ==
    (0..MaxShort) \cup ((BinaryCheckLen - MaxBeyond)..(BinaryCheckLen + MaxBeyond))

\* the offsets at which the slices tried may hold a 0x00 byte
NullOffsets ==
    (0..(MaxShort - 1))
        \cup ((BinaryCheckLen - MaxBeyond)..(BinaryCheckLen + MaxBeyond - 1))

\* the slice of n bytes that holds 0x00 at the offsets of nulls and 0x01
\* elsewhere
Slice(n, nulls) == [i \in 1..n |-> IF (i - 1) \in nulls THEN 0 ELSE 1]

InitBinary ==
    /\ \E n \in SliceLens :
          \E nulls \in SUBSET (NullOffsets \cap (0..(n - 1))) :
             bytes = Slice(n, nulls)
    /\ binary = FALSE
    /\ pc = "classify"
    /\ AlignIdle /\ CollectIdle /\ DiffIdle /\ MatchIdle /\ IdemIdle /\ ReviewIdle
    /\ WatchingIdle

\* the call FileContent::is_binary_data(bytes)
IsBinaryData ==
    /\ pc = "classify"
    /\ binary' = is_binary_data(bytes)
    /\ pc' = "classified"
    /\ UNCHANGED bytes
    /\ UNCHANGED <<alignVars, collectVars, diffVars, matchVars, reassembled, reviewVars, watchingVars>>

NextBinary == IsBinaryData

SpecBinary == InitBinary /\ [][NextBinary]_vars

----------------------------------------------------------------------------
(* MatchFinder, the fallback path of the design (spec.md 4.2), and the     *)
(* match-driven assembly of its matches (spec.md 4.3)                       *)

\* the line at 0-indexed position p
LineAt(ls, p) == ls[p + 1]

\* the 0-indexed positions of ls, in order
Positions(ls) == [i \in 1..Len(ls) |-> i - 1]

\* step 1: "mapping from line content to the ordered list of positions where
\* it occurs in the after sequence"
BuildIndex(ls) ==
    [c \in { ls[i] : i \in 1..Len(ls) } |->
        SelectSeq(Positions(ls), LAMBDA p : LineAt(ls, p) = c)]

\* the bucket of content c: empty when c does not occur
Bucket(index, c) == IF c \in DOMAIN index THEN index[c] ELSE <<>>

\* no occurrence
NotFound == -1

\* a selection of the last unused occurrence
LastUnused(bucket, usd) ==
    LET free == SelectSeq(bucket, LAMBDA p : p \notin usd)
    IN  IF free = <<>> THEN NotFound ELSE free[Len(free)]

\* step 2: "select the first unused occurrence in after"
FirstUnused(bucket, usd) ==
    LET free == SelectSeq(bucket, LAMBDA p : p \notin usd)
    IN  IF free = <<>> THEN NotFound ELSE free[1]

\* an extension that does not look at the used positions
RECURSIVE ExtendedLengthAnyway(_, _, _, _, _, _)
ExtendedLengthAnyway(bls, als, i, j, usd, n) ==
    IF /\ i + n < Len(bls)
       /\ j + n < Len(als)
       /\ LineAt(bls, i + n) = LineAt(als, j + n)
    THEN ExtendedLengthAnyway(bls, als, i, j, usd, n + 1)
    ELSE n

\* step 3: "extend the match forward one line at a time while both sequences
\* agree and the after position is still unused": the length of the match of
\* before position i and after position j, n lines of it being claimed
RECURSIVE ExtendedLength(_, _, _, _, _, _)
ExtendedLength(bls, als, i, j, usd, n) ==
    IF /\ i + n < Len(bls)
       /\ j + n < Len(als)
       /\ LineAt(bls, i + n) = LineAt(als, j + n)
       /\ (j + n) \notin usd
    THEN ExtendedLength(bls, als, i, j, usd, n + 1)
    ELSE n

\* the lines the sequences are made of
Alphabet == <<"a", "b", "c", "d", "x">>
Symbols == { Alphabet[i] : i \in 1..MaxSymbols }

\* the line sequences of at most k lines
RECURSIVE LineSeqs(_)
LineSeqs(k) ==
    IF k = 0
    THEN {<<>>}
    ELSE LET shorter == LineSeqs(k - 1)
         IN  shorter \cup
             { Append(p[1], p[2]) :
                 p \in { l \in shorter : Len(l) = k - 1 } \X Symbols }

\* the input of the design's example (spec.md 8, MatchFinder determinism)
ExampleBefore == <<"a", "b", "c", "d">>
ExampleAfter == <<"a", "x", "c", "d">>

InitMatch ==
    /\ \/ /\ before_lines \in LineSeqs(MaxLines)
          /\ after_lines \in LineSeqs(MaxLines)
       \/ /\ before_lines = ExampleBefore
          /\ after_lines = ExampleAfter
    /\ cursor = 0
    /\ used = {}
    /\ matches = <<>>
    /\ started = <<>>
    /\ pc = "scan"
    /\ AlignIdle /\ CollectIdle /\ DiffIdle /\ BinaryIdle /\ IdemIdle /\ ReviewIdle
    /\ WatchingIdle

\* steps 2 to 5 at one position of the scan of before
ScanStep ==
    /\ pc = "scan"
    /\ cursor < Len(before_lines)
    /\ LET index == BuildIndex(after_lines)
           found == FirstUnused(Bucket(index, LineAt(before_lines, cursor)), used)
           length == ExtendedLength(before_lines, after_lines, cursor, found, used, 1)
       IN  IF found # NotFound
           THEN /\ matches' = Append(matches, Match(cursor, found, length))
                /\ used' = used \cup (found..(found + length - 1))
                /\ cursor' = cursor + length
                /\ started' = Append(started, used)
           ELSE /\ cursor' = cursor + 1
                /\ UNCHANGED <<matches, used, started>>
    /\ UNCHANGED <<before_lines, after_lines, pc>>
    /\ UNCHANGED <<alignVars, collectVars, diffVars, binaryVars, reassembled, reviewVars, watchingVars>>

\* step 6 and the assembly: the scan is over, the matches are output and the
\* assembler turns them into the Alignment list (fillers are changed)
AssembleMatches ==
    /\ pc = "scan"
    /\ cursor >= Len(before_lines)
    /\ alignments' = AlignmentAssembler(MatchRegions(matches), Len(before_lines),
                                        Len(after_lines), FALSE)
    /\ pc' = "assembled"
    /\ UNCHANGED <<hunks, before, after>>
    /\ UNCHANGED matchVars
    /\ UNCHANGED <<collectVars, diffVars, binaryVars, reassembled, reviewVars, watchingVars>>

NextMatch == ScanStep \/ AssembleMatches

SpecMatch == InitMatch /\ [][NextMatch]_vars

----------------------------------------------------------------------------
(* The assembler re-run on its own unchanged spans (spec.md 8, Idempotence) *)

\* the changed = false alignments of as, each as a Match: its two starts and,
\* a Match having one length, the length of its before span
UnchangedMatches(as) ==
    LET unchanged == SelectSeq(as, LAMBDA a : ~a.changed)
    IN  [i \in 1..Len(unchanged) |->
            Match(unchanged[i].before.start, unchanged[i].after.start,
                  SpanLen(unchanged[i].before))]

\* the unchanged spans of the returned list go through the assembler as a
\* match list, with the same before_len and after_len
Reassemble ==
    /\ pc = "returned"
    /\ reassembled' = AlignmentAssembler(MatchRegions(UnchangedMatches(alignments)),
                                         FileLen(before), FileLen(after), FALSE)
    /\ pc' = "reassembled"
    /\ UNCHANGED alignVars
    /\ UNCHANGED <<collectVars, diffVars, binaryVars, matchVars, reviewVars, watchingVars>>

NextIdem == ComputeAlignments \/ Reassemble

SpecIdem == InitAlign /\ [][NextIdem]_vars

----------------------------------------------------------------------------
(* ReviewStore: diff/review.rs *)

DiffId(b, a) == [before |-> b, after |-> a]

\* Review::new
Review_new(id) == [id |-> id, reviewed |-> <<>>, comments |-> <<>>, edits |-> <<>>]

Comment(id, path, selection, content) ==
    [id |-> id, path |-> path, selection |-> selection, content |-> content]

Edit(id, path, diff) == [id |-> id, path |-> path, diff |-> diff]

\* enum Selection
Global == [type |-> "global"]
Line(n) == [type |-> "line", line |-> n]
Range(sp) == [type |-> "range", span |-> sp]

\* add_comment: "let (selection_type, selection_line, selection_start,
\* selection_end) = match &comment.selection"
SelectionColumns(sel) ==
    IF sel.type = "global"
    THEN <<"global", None, None, None>>
    ELSE IF sel.type = "line"
         THEN <<"line", Some(sel.line), None, None>>
         ELSE <<"range", None, Some(sel.span.start), Some(sel.span.end)>>

\* get_with_conn: "let selection = match selection_type.as_str()"
RowSelection(row) ==
    IF row.selection_type = "global"
    THEN Global
    ELSE IF row.selection_type = "line"
         THEN Line(UnwrapOr(row.selection_line, 0))
         ELSE IF row.selection_type = "range"
              THEN Range(Span(UnwrapOr(row.selection_start, 0),
                              UnwrapOr(row.selection_end, 0)))
              ELSE Global

\* the rows of the four tables
ReviewRow(id) == [before_ref |-> id.before, after_ref |-> id.after]

ReviewedRow(id, path) ==
    [before_ref |-> id.before, after_ref |-> id.after, path |-> path]

CommentRow(id, c) ==
    LET cols == SelectionColumns(c.selection)
    IN  [id |-> c.id, before_ref |-> id.before, after_ref |-> id.after,
         path |-> c.path, selection_type |-> cols[1], selection_line |-> cols[2],
         selection_start |-> cols[3], selection_end |-> cols[4],
         content |-> c.content]

EditRow(id, e) ==
    [id |-> e.id, before_ref |-> id.before, after_ref |-> id.after,
     path |-> e.path, diff |-> e.diff]

\* WHERE before_ref = ?1 AND after_ref = ?2
OfReview(row, id) == row.before_ref = id.before /\ row.after_ref = id.after

RowsOf(table, id) == SelectSeq(table, LAMBDA row : OfReview(row, id))
RowsNotOf(table, id) == SelectSeq(table, LAMBDA row : ~OfReview(row, id))

\* "SELECT 1 FROM reviews WHERE before_ref = ?1 AND after_ref = ?2"
ReviewExists(st, id) == \E i \in 1..Len(st.reviews) : OfReview(st.reviews[i], id)

\* "INSERT OR IGNORE INTO reviews (before_ref, after_ref) VALUES (?1, ?2)"
InsertReview(st, id) ==
    IF ReviewExists(st, id)
    THEN st
    ELSE [st EXCEPT !.reviews = Append(@, ReviewRow(id))]

\* get_with_conn: Review::new when the review row is missing, else the rows
\* of the three child tables
get_with_conn(st, id) ==
    IF ~ReviewExists(st, id)
    THEN Review_new(id)
    ELSE LET reviewed == RowsOf(st.reviewed_files, id)
             comments == RowsOf(st.comments, id)
             edits == RowsOf(st.edits, id)
         IN  [id |-> id,
              reviewed |-> [i \in 1..Len(reviewed) |-> reviewed[i].path],
              comments |-> [i \in 1..Len(comments) |->
                              Comment(comments[i].id, comments[i].path,
                                      RowSelection(comments[i]), comments[i].content)],
              edits |-> [i \in 1..Len(edits) |->
                           Edit(edits[i].id, edits[i].path, edits[i].diff)]]

\* the rows of the three child tables
ChildRows(st) == Len(st.reviewed_files) + Len(st.comments) + Len(st.edits)

\* an insert that does not ignore a row already there
mark_reviewed_again(st, id, path) ==
    LET created == InsertReview(st, id)
    IN  [created EXCEPT !.reviewed_files = Append(@, ReviewedRow(id, path))]

\* mark_reviewed: get_or_create, then "INSERT OR IGNORE INTO reviewed_files",
\* whose primary key is (before_ref, after_ref, path)
mark_reviewed(st, id, path) ==
    LET created == InsertReview(st, id)
    IN  IF \E i \in 1..Len(created.reviewed_files) :
               created.reviewed_files[i] = ReviewedRow(id, path)
        THEN created
        ELSE [created EXCEPT !.reviewed_files = Append(@, ReviewedRow(id, path))]

\* unmark_reviewed: "DELETE FROM reviewed_files WHERE before_ref = ?1 AND
\* after_ref = ?2 AND path = ?3"
unmark_reviewed(st, id, path) ==
    [st EXCEPT !.reviewed_files =
        SelectSeq(@, LAMBDA row : row # ReviewedRow(id, path))]

\* add_comment: get_or_create, then "INSERT INTO comments", which fails on a
\* comment id already in the table (id TEXT PRIMARY KEY)
add_comment(st, id, c) ==
    LET created == InsertReview(st, id)
    IN  IF \E i \in 1..Len(created.comments) : created.comments[i].id = c.id
        THEN [ok |-> FALSE, store |-> created]
        ELSE [ok |-> TRUE,
              store |-> [created EXCEPT !.comments = Append(@, CommentRow(id, c))]]

\* an update without its WHERE clause
update_every_comment(st, comment_id, content) ==
    [st EXCEPT !.comments =
        [i \in 1..Len(@) |-> [@[i] EXCEPT !.content = content]]]

\* update_comment: "UPDATE comments SET content = ?1 WHERE id = ?2"
update_comment(st, comment_id, content) ==
    [st EXCEPT !.comments =
        [i \in 1..Len(@) |->
            IF @[i].id = comment_id THEN [@[i] EXCEPT !.content = content] ELSE @[i]]]

\* delete_comment: "DELETE FROM comments WHERE id = ?1"
delete_comment(st, comment_id) ==
    [st EXCEPT !.comments = SelectSeq(@, LAMBDA row : row.id # comment_id)]

\* add_edit: get_or_create, then "INSERT INTO edits" (id TEXT PRIMARY KEY)
add_edit(st, id, e) ==
    LET created == InsertReview(st, id)
    IN  IF \E i \in 1..Len(created.edits) : created.edits[i].id = e.id
        THEN [ok |-> FALSE, store |-> created]
        ELSE [ok |-> TRUE,
              store |-> [created EXCEPT !.edits = Append(@, EditRow(id, e))]]

\* delete_edit: "DELETE FROM edits WHERE id = ?1"
delete_edit(st, edit_id) ==
    [st EXCEPT !.edits = SelectSeq(@, LAMBDA row : row.id # edit_id)]

\* a delete whose foreign keys do not cascade
delete_review_row(st, id) ==
    [st EXCEPT !.reviews = RowsNotOf(@, id)]

\* delete: "DELETE FROM reviews WHERE before_ref = ?1 AND after_ref = ?2";
\* "Foreign key cascades handle child tables" (ON DELETE CASCADE on each child
\* table, PRAGMA foreign_keys = ON on the connection)
delete(st, id) ==
    [reviews |-> RowsNotOf(st.reviews, id),
     reviewed_files |-> RowsNotOf(st.reviewed_files, id),
     comments |-> RowsNotOf(st.comments, id),
     edits |-> RowsNotOf(st.edits, id)]

\* the diffs reviewed, the paths, and the texts of comments
DiffIds == {DiffId("main", "feature"), DiffId("HEAD", "@")}
ReviewPaths == {"src/main.rs", "src/lib.rs"}
Texts == {"This looks wrong", "Actually it's fine"}

\* Comment::new and Edit::new draw a fresh uuid
CommentIds == {"c1", "c2"}
EditIds == {"e1", "e2"}

\* what the frontend sends as NewComment (path and selection) and as NewEdit
NewComments ==
    { [path |-> "src/lib.rs", selection |-> Line(42)],
      [path |-> "src/main.rs", selection |-> Global],
      [path |-> "src/lib.rs", selection |-> Range(Span(0, 2))] }
NewEdits == { [path |-> "src/lib.rs", diff |-> "-old\n+new"] }

\* the record of a call
Call(op, id, arg, text, ok) ==
    [op |-> op, id |-> id, arg |-> arg, text |-> text, ok |-> ok,
     rows |-> ChildRows(store)]

InitReview ==
    /\ store = EmptyStore
    /\ last = NoCall
    /\ pc = "open"
    /\ AlignIdle /\ CollectIdle /\ DiffIdle /\ BinaryIdle /\ MatchIdle /\ IdemIdle
    /\ WatchingIdle

\* what no call of the store touches
ReviewFrame ==
    /\ UNCHANGED pc
    /\ UNCHANGED <<alignVars, collectVars, diffVars, binaryVars, matchVars, reassembled>>
    /\ UNCHANGED watchingVars

GetOrCreate ==
    \E id \in DiffIds :
        /\ store' = InsertReview(store, id)
        /\ last' = Call("get_or_create", id, 0, 0, TRUE)
        /\ ReviewFrame

Get ==
    \E id \in DiffIds :
        /\ UNCHANGED store
        /\ last' = Call("get", id, 0, 0, TRUE)
        /\ ReviewFrame

MarkReviewed ==
    \E id \in DiffIds, path \in ReviewPaths :
        /\ ChildRows(store) < MaxRows
        /\ store' = mark_reviewed(store, id, path)
        /\ last' = Call("mark_reviewed", id, path, 0, TRUE)
        /\ ReviewFrame

UnmarkReviewed ==
    \E id \in DiffIds, path \in ReviewPaths :
        /\ store' = unmark_reviewed(store, id, path)
        /\ last' = Call("unmark_reviewed", id, path, 0, TRUE)
        /\ ReviewFrame

\* the command add_comment: Comment::new(path, selection, content) with a
\* fresh id, then store.add_comment(&id, &comment)
AddComment ==
    \E id \in DiffIds, new \in NewComments, content \in Texts, uuid \in CommentIds :
        /\ ChildRows(store) < MaxRows
        /\ \A i \in 1..Len(store.comments) : store.comments[i].id # uuid
        /\ LET c == Comment(uuid, new.path, new.selection, content)
               r == add_comment(store, id, c)
           IN  /\ store' = r.store
               /\ last' = Call("add_comment", id, c, 0, r.ok)
        /\ ReviewFrame

UpdateComment ==
    \E comment_id \in CommentIds, content \in Texts :
        /\ store' = update_comment(store, comment_id, content)
        /\ last' = Call("update_comment", 0, comment_id, content, TRUE)
        /\ ReviewFrame

DeleteComment ==
    \E comment_id \in CommentIds :
        /\ store' = delete_comment(store, comment_id)
        /\ last' = Call("delete_comment", 0, comment_id, 0, TRUE)
        /\ ReviewFrame

\* the command record_edit: Edit::new(path, diff) with a fresh id, then
\* store.add_edit(&id, &edit)
AddEdit ==
    \E id \in DiffIds, new \in NewEdits, uuid \in EditIds :
        /\ ChildRows(store) < MaxRows
        /\ \A i \in 1..Len(store.edits) : store.edits[i].id # uuid
        /\ LET e == Edit(uuid, new.path, new.diff)
               r == add_edit(store, id, e)
           IN  /\ store' = r.store
               /\ last' = Call("add_edit", id, e, 0, r.ok)
        /\ ReviewFrame

DeleteEdit ==
    \E edit_id \in EditIds :
        /\ store' = delete_edit(store, edit_id)
        /\ last' = Call("delete_edit", 0, edit_id, 0, TRUE)
        /\ ReviewFrame

Delete ==
    \E id \in DiffIds :
        /\ store' = delete(store, id)
        /\ last' = Call("delete", id, 0, 0, TRUE)
        /\ ReviewFrame

NextReview ==
    \/ GetOrCreate \/ Get \/ MarkReviewed \/ UnmarkReviewed
    \/ AddComment \/ UpdateComment \/ DeleteComment
    \/ AddEdit \/ DeleteEdit \/ Delete

SpecReview == InitReview /\ [][NextReview]_vars

----------------------------------------------------------------------------
(* should_trigger_refresh: watcher/mod.rs and diff/watcher.rs *)

\* A str is the sequence of the pieces it is written with: "/" is the
\* separator, every other piece is a stretch of a file name such as ".git",
\* "index" or ".lock". A Path is the sequence of its components, each the
\* pieces of one name.

\* str::starts_with, str::ends_with, str::contains
starts_with(s, pat) == Len(pat) <= Len(s) /\ SubSeq(s, 1, Len(pat)) = pat
ends_with(s, pat) ==
    Len(pat) <= Len(s) /\ SubSeq(s, Len(s) - Len(pat) + 1, Len(s)) = pat
contains(s, pat) ==
    \E i \in 0..(Len(s) - Len(pat)) : SubSeq(s, i + 1, i + Len(pat)) = pat

\* Path::strip_prefix compares whole components: Ok(rest) or Err
strip_prefix(p, base) ==
    IF Len(base) <= Len(p) /\ SubSeq(p, 1, Len(base)) = base
    THEN Some(SubSeq(p, Len(base) + 1, Len(p)))
    ELSE None

\* Path::to_string_lossy: the components, joined by the separator
RECURSIVE to_string_lossy(_)
to_string_lossy(p) ==
    IF p = <<>> THEN <<>>
    ELSE IF Len(p) = 1 THEN p[1]
    ELSE p[1] \o <<"/">> \o to_string_lossy(Tail(p))

\* diff/watcher.rs: ignored_prefixes
ignored_prefixes ==
    << <<"node_modules", "/">>, <<"target", "/">>, <<".build", "/">>,
       <<"build", "/">>, <<"dist", "/">>, <<".next", "/">>,
       <<"__pycache__", "/">>, <<".pytest_cache", "/">>, <<"venv", "/">>,
       <<".venv", "/">> >>

\* diff/watcher.rs: ignored_suffixes
ignored_suffixes ==
    << <<".pyc">>, <<".pyo">>, <<".class">>, <<".o">>, <<".a">>, <<".so">>,
       <<".dylib">>, <<"~">>, <<".swp">>, <<".swo">>, <<".lock">> >>

\* should_trigger_refresh without the rule for the rest of .git/
watcher_trigger_without_git_rule(p, root) ==
    LET relative == strip_prefix(p, root)
        path_str == to_string_lossy(relative[1])
    IN  IF relative = None THEN FALSE
        ELSE IF \/ path_str = <<".git", "/", "index">>
                \/ path_str = <<".git", "/", "HEAD">>
                \/ starts_with(path_str, <<".git", "/", "refs", "/">>)
        THEN TRUE
        ELSE IF \/ starts_with(path_str, <<".git", "/", "objects", "/">>)
                \/ starts_with(path_str, <<".git", "/", "logs", "/">>)
                \/ ends_with(path_str, <<".lock">>)
        THEN FALSE
        ELSE IF \E i \in 1..Len(ignored_prefixes) :
                    starts_with(path_str, ignored_prefixes[i])
        THEN FALSE
        ELSE ~ends_with(path_str, <<".pyc">>)

\* watcher/mod.rs: should_trigger_refresh
watcher_should_trigger_refresh(p, root) ==
    LET relative == strip_prefix(p, root)
        path_str == to_string_lossy(relative[1])
    IN  IF relative = None THEN FALSE
        \* "Always trigger on key .git files"
        ELSE IF \/ path_str = <<".git", "/", "index">>
                \/ path_str = <<".git", "/", "HEAD">>
                \/ starts_with(path_str, <<".git", "/", "refs", "/">>)
        THEN TRUE
        \* "Ignore internal git files that change frequently"
        ELSE IF \/ starts_with(path_str, <<".git", "/", "objects", "/">>)
                \/ starts_with(path_str, <<".git", "/", "logs", "/">>)
                \/ starts_with(path_str, <<".git", "/", "hooks", "/">>)
                \/ starts_with(path_str, <<".git", "/", "info", "/">>)
                \/ contains(path_str, <<".git", "/", "fsmonitor">>)
                \/ ends_with(path_str, <<".lock">>)
        THEN FALSE
        \* "Ignore other .git internals we haven't explicitly allowed"
        ELSE IF starts_with(path_str, <<".git", "/">>)
        THEN FALSE
        \* "Ignore common build/dependency directories"
        ELSE IF \/ starts_with(path_str, <<"node_modules", "/">>)
                \/ starts_with(path_str, <<"target", "/">>)
                \/ starts_with(path_str, <<".build", "/">>)
                \/ starts_with(path_str, <<"build", "/">>)
                \/ starts_with(path_str, <<"dist", "/">>)
                \/ starts_with(path_str, <<".next", "/">>)
                \/ starts_with(path_str, <<"__pycache__", "/">>)
                \/ starts_with(path_str, <<".pytest_cache", "/">>)
                \/ starts_with(path_str, <<"venv", "/">>)
                \/ starts_with(path_str, <<".venv", "/">>)
        THEN FALSE
        \* "Ignore common temporary/generated files"
        ELSE IF \/ ends_with(path_str, <<".pyc">>)
                \/ ends_with(path_str, <<".pyo">>)
                \/ ends_with(path_str, <<".class">>)
                \/ ends_with(path_str, <<".o">>)
                \/ ends_with(path_str, <<".a">>)
                \/ ends_with(path_str, <<".so">>)
                \/ ends_with(path_str, <<".dylib">>)
                \/ ends_with(path_str, <<"~">>)
                \/ ends_with(path_str, <<".swp">>)
                \/ ends_with(path_str, <<".swo">>)
                \/ contains(path_str, <<".DS_Store">>)
        THEN FALSE
        ELSE TRUE

\* diff/watcher.rs: should_trigger_refresh
diff_watcher_should_trigger_refresh(p, root) ==
    LET relative == strip_prefix(p, root)
        path_str == to_string_lossy(relative[1])
    IN  IF relative = None THEN FALSE
        \* "Key .git files that indicate state changes"
        ELSE IF \/ path_str = <<".git", "/", "index">>
                \/ path_str = <<".git", "/", "HEAD">>
                \/ starts_with(path_str, <<".git", "/", "refs", "/">>)
        THEN TRUE
        \* "Ignore internal git files"
        ELSE IF starts_with(path_str, <<".git", "/">>)
        THEN FALSE
        ELSE IF \E i \in 1..Len(ignored_prefixes) :
                    starts_with(path_str, ignored_prefixes[i])
        THEN FALSE
        ELSE IF \E i \in 1..Len(ignored_suffixes) :
                    ends_with(path_str, ignored_suffixes[i])
        THEN FALSE
        ELSE IF contains(path_str, <<".DS_Store">>)
        THEN FALSE
        ELSE TRUE

\* the names the events' paths are made of
Names ==
    { <<".git">>, <<"index">>, <<"index", ".lock">>, <<"HEAD">>, <<"refs">>,
      <<"main">>, <<"main", ".lock">>, <<"objects">>, <<"node_modules">>,
      <<"target">>, <<"src">>, <<"main", ".rs">>, <<"foo", ".pyc">> }

\* the paths of at most k names
RECURSIVE RelativePaths(_)
RelativePaths(k) ==
    IF k = 0 THEN { <<>> }
    ELSE LET shorter == RelativePaths(k - 1)
         IN  shorter \cup
             { Append(r, n) : r \in {x \in shorter : Len(x) = k - 1}, n \in Names }

\* the watched repository ("/repo" in the tests) and another directory
Roots == { << <<"repo">> >>, << <<"other">> >> }
WatchedRoot == << <<"repo">> >>

InitFilter ==
    /\ repo_root = WatchedRoot
    /\ event_path \in { r \o rel : r \in Roots, rel \in RelativePaths(MaxDepth) }
    /\ triggers = None
    /\ pc = "filter"
    /\ now = 0
    /\ RepoWatcherIdle /\ RefreshIdle /\ ActionsIdle
    /\ AlignIdle /\ CollectIdle /\ DiffIdle /\ BinaryIdle /\ MatchIdle /\ IdemIdle
    /\ ReviewIdle

\* the debouncer's callback asks the filter about one path of an event
ShouldTriggerRefresh ==
    /\ pc = "filter"
    /\ triggers' =
         Some([watcher |-> watcher_should_trigger_refresh(event_path, repo_root),
               diff_watcher |->
                   diff_watcher_should_trigger_refresh(event_path, repo_root)])
    /\ pc' = "filtered"
    /\ UNCHANGED <<event_path, repo_root, now, repoWatcherVars, refreshVars,
                   actionVars>>
    /\ UNCHANGED <<alignVars, collectVars, diffVars, binaryVars, matchVars,
                   reassembled, reviewVars>>

NextFilter == ShouldTriggerRefresh

SpecFilter == InitFilter /\ [][NextFilter]_vars

----------------------------------------------------------------------------
(* RepoWatcher: diff/watcher.rs *)

MIN_EMIT_INTERVAL == 500
DEBOUNCE_TIMEOUT == 300

\* Instant::elapsed, at the clock's time t
elapsed(instant, t) == t - instant

\* the time that passes between two steps: a batch comes DEBOUNCE_TIMEOUT
\* after the last change, or the interval goes by
WatcherDelays == {DEBOUNCE_TIMEOUT, MIN_EMIT_INTERVAL}

\* the paths of a debounced batch: a source file, or a git object
EventPaths ==
    { WatchedRoot \o << <<"src">>, <<"main", ".rs">> >>,
      WatchedRoot \o << <<".git">>, <<"objects">>, <<"main">> >> }

\* stop_inner: the debouncer is taken and dropped
stop_inner(w) == [w EXCEPT !.debouncer = None, !.repo_path = None]

InitRepoWatcher ==
    /\ now = 0
    /\ inner = WatcherInner_new(0)
    /\ last_emit = None
    /\ emitted = <<>>
    /\ pc = "watching"
    /\ FilterIdle /\ RefreshIdle /\ ActionsIdle
    /\ AlignIdle /\ CollectIdle /\ DiffIdle /\ BinaryIdle /\ MatchIdle /\ IdemIdle
    /\ ReviewIdle

\* what no step of the RepoWatcher touches
RepoWatcherFrame ==
    /\ UNCHANGED <<pc, filterVars, refreshVars, actionVars>>
    /\ UNCHANGED <<alignVars, collectVars, diffVars, binaryVars, matchVars,
                   reassembled, reviewVars>>

\* time passes
WatcherTick ==
    /\ \E d \in WatcherDelays :
          /\ now + d <= MaxTicks * MIN_EMIT_INTERVAL
          /\ now' = now + d
    /\ UNCHANGED <<inner, last_emit, emitted>>
    /\ RepoWatcherFrame

\* RepoWatcher::start: stop_inner, a last_emit of its own for the new
\* debouncer's callback, and either new_debouncer fails or the debouncer is
\* installed
RepoWatcherStart ==
    /\ \E created \in BOOLEAN :
          IF created
          THEN /\ inner' = [debouncer |-> Some(WatchedRoot),
                            repo_path |-> Some(WatchedRoot),
                            last_emit |-> now - EmitAllowance]
               /\ last_emit' = Some(now - EmitAllowance)
          ELSE /\ inner' = stop_inner(inner)
               /\ last_emit' = None
    /\ UNCHANGED <<now, emitted>>
    /\ RepoWatcherFrame

\* RepoWatcher::stop
RepoWatcherStop ==
    /\ inner' = stop_inner(inner)
    /\ last_emit' = None
    /\ UNCHANGED <<now, emitted>>
    /\ RepoWatcherFrame

\* the running debouncer hands a batch to its callback: nothing when no
\* path of it passes the filter, nothing inside the interval, else the
\* callback notes the time and emits files-changed
DebouncedBatch ==
    /\ inner.debouncer # None
    /\ Len(emitted) < MaxEmits
    /\ \E p \in EventPaths :
          IF ~diff_watcher_should_trigger_refresh(p, inner.debouncer[1])
          THEN UNCHANGED <<last_emit, emitted>>
          ELSE IF elapsed(last_emit[1], now) < MIN_EMIT_INTERVAL
          THEN UNCHANGED <<last_emit, emitted>>
          ELSE /\ last_emit' = Some(now)
               /\ emitted' = Append(emitted, now)
    /\ UNCHANGED <<now, inner>>
    /\ RepoWatcherFrame

NextRepoWatcher ==
    WatcherTick \/ RepoWatcherStart \/ RepoWatcherStop \/ DebouncedBatch

SpecRepoWatcher == InitRepoWatcher /\ [][NextRepoWatcher]_vars

----------------------------------------------------------------------------
(* RefreshController and AdaptiveProvider: refresh.rs, git/provider.rs *)

SLOW_REPO_THRESHOLD_MS == 1000
MIN_THROTTLE_INTERVAL_MS == 1000
cli_threshold_ms == 500

\* the time that passes between two steps: just over the provider's
\* threshold, and twice that is just over the slow-repo threshold
RefreshDelays == {cli_threshold_ms + 1}

\* a Duration of ms milliseconds, counted in half milliseconds
HalfMs(ms) == 2 * ms

\* the minimum interval alone
minimum_throttle_interval(last_duration) == HalfMs(MIN_THROTTLE_INTERVAL_MS)

\* calculate_throttle_interval, in half milliseconds: the greater of the
\* minimum interval and 1.5 times the last duration
calculate_throttle_interval(last_duration) ==
    IF HalfMs(MIN_THROTTLE_INTERVAL_MS) >= 3 * last_duration
    THEN HalfMs(MIN_THROTTLE_INTERVAL_MS)
    ELSE 3 * last_duration

\* handle_change's throttle check at the clock's time t
throttled(st, t) ==
    HalfMs(elapsed(st.last_refresh, t)) <
        calculate_throttle_interval(st.last_duration)

\* handle_change: should_notify_slow
should_notify(st, duration) ==
    duration > SLOW_REPO_THRESHOLD_MS /\ ~st.slow_notification_sent

\* handle_change: the state after a status fetch that took duration
record_refresh(st, t, duration) ==
    [st EXCEPT !.last_refresh = t,
               !.last_duration = duration,
               !.slow_notification_sent = @ \/ should_notify(st, duration)]

\* a forced fetch that records nothing
record_nothing(st, t, duration) == st

\* force_refresh: the state after its status fetch
record_forced(st, t, duration) ==
    [st EXCEPT !.last_refresh = t, !.last_duration = duration]

\* AdaptiveProvider::get_status: the mode a call leaves, which used the
\* mode used_cli, ended with ok and took duration
mode_after(mode, used_cli, ok, duration) ==
    IF ok /\ ~used_cli /\ duration > cli_threshold_ms THEN TRUE ELSE mode

\* a failed fetch recorded like a refresh
record_failed_fetch(st, t, duration) == record_refresh(st, t, duration)

\* the state a failed get_status leaves to handle_change and force_refresh
after_failed_fetch(st, t, duration) == st

\* a call that ended in the way how returns r, and its locals are gone
Return(how, r) == [NoLocals EXCEPT !.ended = how, !.ret = r]

\* handle_change returns: to the debouncer, or to start, which returns Ok
ReturnFromHandleChange(l, how) ==
    Return(how, IF l.op = "start" THEN "Ok" ELSE "none")

InitRefresh ==
    /\ now = 0
    /\ RefreshIdle
    /\ pc = "refreshing"
    /\ FilterIdle /\ RepoWatcherIdle /\ ActionsIdle
    /\ AlignIdle /\ CollectIdle /\ DiffIdle /\ BinaryIdle /\ MatchIdle /\ IdemIdle
    /\ ReviewIdle

\* what no step of the controller touches
RefreshFrame ==
    /\ UNCHANGED <<pc, filterVars, repoWatcherVars, actionVars>>
    /\ UNCHANGED <<alignVars, collectVars, diffVars, binaryVars, matchVars,
                   reassembled, reviewVars>>

\* time passes
RefreshTick ==
    /\ \E d \in RefreshDelays :
          /\ now + d <= MaxTicks * (cli_threshold_ms + 1)
          /\ now' = now + d
    /\ UNCHANGED refreshVars
    /\ RefreshFrame

\* start(repo), under the state lock: the state is reset and the path set
StartWatching ==
    /\ thread["command"].pc = "idle"
    /\ \E repo \in Roots :
          /\ state' = [RefreshState_default(now) EXCEPT !.repo_path = Some(repo)]
          /\ thread' = [thread EXCEPT !["command"] =
                 [NoLocals EXCEPT !.op = "start", !.arg = Some(repo),
                                  !.pc = "reset"]]
    /\ events' = NoEvents
    /\ UNCHANGED <<now, use_cli, watcher, fetches, called>>
    /\ RefreshFrame

\* start: provider.reset()
ResetProvider ==
    /\ thread["command"].pc = "reset"
    /\ use_cli' = FALSE
    /\ called' = FALSE
    /\ thread' = [thread EXCEPT !["command"].pc = "watch"]
    /\ UNCHANGED <<now, state, watcher, events, fetches>>
    /\ RefreshFrame

\* start: watcher.start stops the running debouncer, then either fails, and
\* start returns the error, or installs the new debouncer
WatcherStart ==
    /\ thread["command"].pc = "watch"
    /\ \E created \in BOOLEAN :
          IF created
          THEN /\ watcher' = [debouncer |-> thread["command"].arg]
               /\ thread' = [thread EXCEPT !["command"].pc = "read"]
          ELSE /\ watcher' = [debouncer |-> None]
               /\ thread' = [thread EXCEPT !["command"] = Return("watcher_failed", "Err")]
    /\ UNCHANGED <<now, state, use_cli, events, fetches, called>>
    /\ RefreshFrame

\* stop: watcher.stop()
StopWatching ==
    /\ thread["command"].pc = "idle"
    /\ watcher' = [debouncer |-> None]
    /\ thread' = [thread EXCEPT !["command"] =
           [NoLocals EXCEPT !.op = "stop", !.pc = "unwatch"]]
    /\ UNCHANGED <<now, state, use_cli, events, fetches, called>>
    /\ RefreshFrame

\* stop, under the state lock: the path is cleared
StopState ==
    /\ thread["command"].pc = "unwatch"
    /\ state' = [state EXCEPT !.repo_path = None]
    /\ thread' = [thread EXCEPT !["command"] = Return("stopped", "none")]
    /\ UNCHANGED <<now, use_cli, watcher, events, fetches, called>>
    /\ RefreshFrame

\* force_refresh, under the state lock: the path is read, and without one
\* the call returns its error
ForceRefresh ==
    /\ thread["command"].pc = "idle"
    /\ thread' = [thread EXCEPT !["command"] =
           IF state.repo_path = None
           THEN Return("no_repo", "No repository is being watched")
           ELSE [NoLocals EXCEPT !.op = "force_refresh",
                                 !.repo_path = state.repo_path,
                                 !.pc = "fetch"]]
    /\ UNCHANGED <<now, state, use_cli, watcher, events, fetches, called>>
    /\ RefreshFrame

\* the running debouncer hands a batch to its callback, which calls
\* on_change when a path of the batch passes the filter
OnChange ==
    /\ thread["callback"].pc = "idle"
    /\ watcher.debouncer # None
    /\ \E p \in EventPaths :
          thread' = [thread EXCEPT !["callback"] =
              IF watcher_should_trigger_refresh(p, watcher.debouncer[1])
              THEN [NoLocals EXCEPT !.op = "handle_change", !.pc = "read"]
              ELSE thread["callback"]]
    /\ UNCHANGED <<now, state, use_cli, watcher, events, fetches, called>>
    /\ RefreshFrame

\* handle_change, under the state lock: the path is read, and without one
\* the call returns
ReadRepoPath(t) ==
    /\ thread[t].pc = "read"
    /\ thread' = [thread EXCEPT ![t] =
           IF state.repo_path = None
           THEN ReturnFromHandleChange(@, "no_repo")
           ELSE [@ EXCEPT !.repo_path = state.repo_path, !.pc = "throttle"]]
    /\ UNCHANGED <<now, state, use_cli, watcher, events, fetches, called>>
    /\ RefreshFrame

\* handle_change, under the state lock: inside the throttle interval the
\* call returns
ThrottleCheck(t) ==
    /\ thread[t].pc = "throttle"
    /\ thread' = [thread EXCEPT ![t] =
           IF throttled(state, now)
           THEN ReturnFromHandleChange(@, "throttled")
           ELSE [@ EXCEPT !.pc = "fetch"]]
    /\ UNCHANGED <<now, state, use_cli, watcher, events, fetches, called>>
    /\ RefreshFrame

\* provider.get_status begins: the mode is loaded and the clock read
GetStatusBegin(t) ==
    /\ thread[t].pc = "fetch"
    /\ fetches < MaxFetches
    /\ thread' = [thread EXCEPT ![t] =
           [@ EXCEPT !.used_cli = use_cli, !.start = now,
                     !.fetched = @ \o thread[t].repo_path,
                     !.pc = "fetching"]]
    /\ fetches' = fetches + 1
    /\ called' = TRUE
    /\ UNCHANGED <<now, state, use_cli, watcher, events>>
    /\ RefreshFrame

\* provider.get_status ends: with a status, after which a git2 call over
\* the threshold stores the CLI mode, or with an error, on which
\* handle_change returns and force_refresh returns the error
GetStatusEnd(t) ==
    /\ thread[t].pc = "fetching"
    /\ \E ok \in BOOLEAN :
          LET duration == elapsed(thread[t].start, now) IN
          /\ use_cli' = mode_after(use_cli, thread[t].used_cli, ok, duration)
          /\ state' = IF ok THEN state
                      ELSE after_failed_fetch(state, now, duration)
          /\ thread' = [thread EXCEPT ![t] =
                 IF ok
                 THEN [@ EXCEPT !.duration = duration, !.start = 0,
                                !.pc = "update"]
                 ELSE IF thread[t].op = "force_refresh"
                 THEN Return("fetch_failed", "Err")
                 ELSE ReturnFromHandleChange(@, "fetch_failed")]
    /\ UNCHANGED <<now, watcher, events, fetches, called>>
    /\ RefreshFrame

\* handle_change, under the state lock: the timing is recorded and the
\* slow-repo notification decided
UpdateState(t) ==
    /\ thread[t].pc = "update"
    /\ thread[t].op # "force_refresh"
    /\ state' = record_refresh(state, now, thread[t].duration)
    /\ thread' = [thread EXCEPT ![t] =
           [@ EXCEPT !.should_notify_slow =
                         should_notify(state, thread[t].duration),
                     !.recorded = TRUE,
                     !.pc = "emit"]]
    /\ UNCHANGED <<now, use_cli, watcher, events, fetches, called>>
    /\ RefreshFrame

\* handle_change: status-updated is emitted
EmitStatusUpdated(t) ==
    /\ thread[t].pc = "emit"
    /\ thread[t].op # "force_refresh"
    /\ events' = [events EXCEPT !.status_updated = @ + 1]
    /\ thread' = [thread EXCEPT ![t] =
           IF thread[t].should_notify_slow
           THEN [@ EXCEPT !.emitted = TRUE, !.pc = "emit_slow"]
           ELSE ReturnFromHandleChange(@, "refreshed")]
    /\ UNCHANGED <<now, state, use_cli, watcher, fetches, called>>
    /\ RefreshFrame

\* handle_change: slow-repo-detected is emitted
EmitSlowRepo(t) ==
    /\ thread[t].pc = "emit_slow"
    /\ events' = [events EXCEPT !.slow_repo_detected = @ + 1]
    /\ thread' = [thread EXCEPT ![t] = ReturnFromHandleChange(@, "refreshed")]
    /\ UNCHANGED <<now, state, use_cli, watcher, fetches, called>>
    /\ RefreshFrame

\* force_refresh, under the state lock: the timing is recorded
ForcedUpdate ==
    /\ thread["command"].pc = "update"
    /\ thread["command"].op = "force_refresh"
    /\ state' = record_forced(state, now, thread["command"].duration)
    /\ thread' = [thread EXCEPT !["command"] =
           [@ EXCEPT !.recorded = TRUE, !.pc = "emit"]]
    /\ UNCHANGED <<now, use_cli, watcher, events, fetches, called>>
    /\ RefreshFrame

\* force_refresh: status-updated is emitted and the call returns Ok
ForcedEmit ==
    /\ thread["command"].pc = "emit"
    /\ thread["command"].op = "force_refresh"
    /\ events' = [events EXCEPT !.status_updated = @ + 1]
    /\ thread' = [thread EXCEPT !["command"] =
           Return("forced", "Ok")]
    /\ UNCHANGED <<now, state, use_cli, watcher, fetches, called>>
    /\ RefreshFrame

\* a step of handle_change or of get_status, on either thread
HandleChangeStep(t) ==
    \/ ReadRepoPath(t)
    \/ ThrottleCheck(t)
    \/ GetStatusBegin(t)
    \/ GetStatusEnd(t)
    \/ UpdateState(t)
    \/ EmitStatusUpdated(t)
    \/ EmitSlowRepo(t)

NextRefresh ==
    \/ RefreshTick
    \/ StartWatching \/ ResetProvider \/ WatcherStart
    \/ StopWatching \/ StopState
    \/ ForceRefresh \/ ForcedUpdate \/ ForcedEmit
    \/ OnChange
    \/ \E t \in Threads : HandleChangeStep(t)

SpecRefresh == InitRefresh /\ [][NextRefresh]_vars

----------------------------------------------------------------------------
(* The global review store: diff/review.rs *)

\* Result<T, E>
Ok(x) == [ok |-> TRUE, val |-> x]
Err(e) == [ok |-> FALSE, val |-> e]

\* what app_data_dir's error makes of init_store
DirError == Err("Cannot get app data dir")

\* ReviewStore::open(db_path).map_err(|e| e.0): the store, or the message
OpenResults ==
    {Ok("reviews.db"), Err("unable to open database file"),
     Err("database is locked")}

\* a OnceLock that every call sets
set_always(cell, r) == Some(r)

\* OnceLock::get_or_init: the cell holds the first value given to it
get_or_init(cell, r) == IF cell = None THEN Some(r) ELSE cell

\* get_store
get_store(cell) ==
    IF cell = None THEN Err("Review store not initialized")
    ELSE IF cell[1].ok THEN Ok(cell[1].val)
    ELSE Err(cell[1].val)

\* init_store's end: get_store()?; Ok(())
checked(cell) ==
    IF get_store(cell).ok THEN Ok("()") ELSE get_store(cell)

\* the first init_store results, after one more returned r
NoteInit(first, r) ==
    [returned |-> IF first.returned = None THEN Some(r) ELSE first.returned,
     opened |-> IF first.opened = None /\ r # DirError
                THEN Some(r) ELSE first.opened]

InitHandle ==
    /\ HandleIdle
    /\ pc = "handle"
    /\ now = 0
    /\ FilterIdle /\ RepoWatcherIdle /\ RefreshIdle
    /\ DiscardIdle /\ UntrackedIdle
    /\ AlignIdle /\ CollectIdle /\ DiffIdle /\ BinaryIdle /\ MatchIdle /\ IdemIdle
    /\ ReviewIdle

\* what no step of init_store and get_store touches
HandleFrame ==
    /\ UNCHANGED <<pc, now, filterVars, repoWatcherVars, refreshVars>>
    /\ UNCHANGED <<discardVars, untrackedVars>>
    /\ UNCHANGED <<alignVars, collectVars, diffVars, binaryVars, matchVars,
                   reassembled, reviewVars>>

\* init_store is called: app_data_dir fails, and the call returns that
\* error, or gives the directory
InitStore(t) ==
    /\ caller[t].pc = "idle"
    /\ init_called' = TRUE
    /\ \E found \in BOOLEAN :
          IF found
          THEN /\ caller' = [caller EXCEPT ![t] =
                      [NoCaller EXCEPT !.op = "init_store", !.pc = "init"]]
               /\ UNCHANGED first_init
          ELSE /\ caller' = [caller EXCEPT ![t] =
                      [NoCaller EXCEPT !.op = "init_store", !.ret = Some(DirError)]]
               /\ first_init' = NoteInit(first_init, DirError)
    /\ UNCHANGED STORE
    /\ HandleFrame

\* init_store: STORE.get_or_init(|| ReviewStore::open(db_path)...)
GetOrInit(t) ==
    /\ caller[t].pc = "init"
    /\ \E r \in OpenResults : STORE' = get_or_init(STORE, r)
    /\ caller' = [caller EXCEPT ![t].pc = "check"]
    /\ UNCHANGED <<init_called, first_init>>
    /\ HandleFrame

\* init_store: get_store()?; Ok(())
InitStoreReturns(t) ==
    /\ caller[t].pc = "check"
    /\ caller' = [caller EXCEPT ![t] =
           [@ EXCEPT !.pc = "idle", !.ret = Some(checked(STORE))]]
    /\ first_init' = NoteInit(first_init, checked(STORE))
    /\ UNCHANGED <<STORE, init_called>>
    /\ HandleFrame

\* get_store is called and returns
GetStore(t) ==
    /\ caller[t].pc = "idle"
    /\ caller' = [caller EXCEPT ![t] =
           [NoCaller EXCEPT !.op = "get_store", !.ret = Some(get_store(STORE)),
                            !.seen_called = init_called,
                            !.seen = first_init]]
    /\ UNCHANGED <<STORE, init_called, first_init>>
    /\ HandleFrame

NextHandle ==
    \E t \in Callers :
        InitStore(t) \/ GetOrInit(t) \/ InitStoreReturns(t) \/ GetStore(t)

SpecHandle == InitHandle /\ [][NextHandle]_vars

----------------------------------------------------------------------------
(* discard_region: diff/actions.rs *)

\* Connection {before, after, changed}
Connection(b, a, ch) == [before |-> b, after |-> a, changed |-> ch]

\* the position of the first line feed of a string that has one
FirstLineFeed(s) ==
    CHOOSE i \in 1..Len(s) : s[i] = "\n" /\ \A j \in 1..(i - 1) : s[j] # "\n"

\* str::lines: the pieces that line feeds end, and the rest if there is any
RECURSIVE str_lines(_)
str_lines(s) ==
    IF s = <<>> THEN <<>>
    ELSE IF \E i \in 1..Len(s) : s[i] = "\n"
    THEN << SubSeq(s, 1, FirstLineFeed(s) - 1) >>
         \o str_lines(SubSeq(s, FirstLineFeed(s) + 1, Len(s)))
    ELSE << s >>

\* [&str]::join
RECURSIVE join(_, _)
join(ls, sep) ==
    IF ls = <<>> THEN <<>>
    ELSE IF Len(ls) = 1 THEN ls[1]
    ELSE ls[1] \o sep \o join(Tail(ls), sep)

\* &lines[from..to] of 0-indexed lines, for from <= to <= len
LineSlice(ls, from, to) == SubSeq(ls, from + 1, to)

\* discard_region after both contents are read: a slice out of range
\* panics, else the content to write
discard_region(cur, base, conn) ==
    LET current_lines == str_lines(cur)
        base_lines == str_lines(base)
        after_start == conn.after.start
        after_end == conn.after.end
        before_start == conn.before.start
        before_end == conn.before.end
        kept_before == LineSlice(current_lines, 0, after_start)
        region == IF before_end <= Len(base_lines)
                  THEN LineSlice(base_lines, before_start, before_end)
                  ELSE <<>>
        kept_after == IF after_end < Len(current_lines)
                      THEN LineSlice(current_lines, after_end, Len(current_lines))
                      ELSE <<>>
        new_content == join(kept_before \o region \o kept_after, <<"\n">>)
    IN  IF after_start > Len(current_lines) THEN [kind |-> "panicked"]
        ELSE IF before_end <= Len(base_lines) /\ before_start > before_end
        THEN [kind |-> "panicked"]
        ELSE [kind |-> "written",
              content |-> IF ends_with(cur, <<"\n">>)
                          THEN new_content \o <<"\n">>
                          ELSE new_content]

\* the strings of at most n characters of cs
RECURSIVE Strings(_, _)
Strings(cs, n) ==
    IF n = 0 THEN { <<>> }
    ELSE Strings(cs, n - 1)
         \cup { Append(s, c) : s \in Strings(cs, n - 1), c \in cs }

\* the working file's content and the base blob's, told apart by letter
CurrentContents == Strings({"c", "\n"}, MaxContent)
BaseContents == Strings({"b", "\n"}, MaxContent)

\* the spans a connection can hold
Spans == { Span(lo, hi) : lo \in 0..MaxContent, hi \in 0..MaxContent }

InitDiscard ==
    /\ current_content \in CurrentContents
    /\ base_content \in BaseContents
    /\ connection \in { Some(Connection(b, a, TRUE)) : b \in Spans, a \in Spans }
    /\ written = None
    /\ pc = "discard"
    /\ now = 0
    /\ FilterIdle /\ RepoWatcherIdle /\ RefreshIdle
    /\ HandleIdle /\ UntrackedIdle
    /\ AlignIdle /\ CollectIdle /\ DiffIdle /\ BinaryIdle /\ MatchIdle /\ IdemIdle
    /\ ReviewIdle

\* discard_region is called: the file or the base cannot be read and the
\* call returns the error, or a slice panics, or the new content is written
DiscardRegion ==
    /\ pc = "discard"
    /\ \E readable \in BOOLEAN :
          LET outcome == discard_region(current_content, base_content,
                                        connection[1])
          IN  IF ~readable
              THEN pc' = "failed" /\ written' = None
              ELSE IF outcome.kind = "panicked"
              THEN pc' = "panicked" /\ written' = None
              ELSE pc' = "written" /\ written' = Some(outcome.content)
    /\ UNCHANGED <<current_content, base_content, connection>>
    /\ UNCHANGED <<now, filterVars, repoWatcherVars, refreshVars, handleVars,
                   untrackedVars>>
    /\ UNCHANGED <<alignVars, collectVars, diffVars, binaryVars, matchVars,
                   reassembled, reviewVars>>

NextDiscard == DiscardRegion

SpecDiscard == InitDiscard /\ [][NextDiscard]_vars

----------------------------------------------------------------------------
(* get_untracked_file_diff: git/diff/mod.rs *)

\* the bytes of a file: a null byte, a line feed, a letter, and a byte that
\* no UTF-8 string holds
FileBytes == {"NUL", "\n", "a", "0xFF"}

\* is_binary_content: bytes.contains(&0)
is_binary_content(bs) == \E i \in 1..Len(bs) : bs[i] = "NUL"

\* String::from_utf8(bytes).is_ok()
is_utf8(bs) == \A i \in 1..Len(bs) : bs[i] # "0xFF"

\* DiffLine
DiffLine(line_type, lineno, content) ==
    [line_type |-> line_type, lineno |-> lineno, content |-> content]

\* the added lines of the content
added_lines(ls) == [i \in 1..Len(ls) |-> DiffLine("added", i, ls[i])]

\* Range, with the SourceLines of an addition
AddedRange(b, a, line_count) ==
    [before |-> b, after |-> a, changed |-> TRUE,
     source_lines |-> Some([old_start |-> None, old_end |-> None,
                            new_start |-> Some(1),
                            new_end |-> Some(line_count)])]

\* the single range of an untracked file: empty before, all lines in after
untracked_ranges(line_count) ==
    << AddedRange(Span(0, 0), Span(0, line_count), line_count) >>

\* the FileDiff of a binary untracked file
BinaryUntracked ==
    [status |-> "untracked", is_binary |-> TRUE, hunks |-> <<>>,
     before |-> <<>>, after |-> <<>>, ranges |-> <<>>]

\* get_untracked_file_diff after the file is read
get_untracked_file_diff(bs) ==
    IF is_binary_content(bs) THEN BinaryUntracked
    ELSE IF ~is_utf8(bs) THEN BinaryUntracked
    ELSE LET added == added_lines(str_lines(bs))
             line_count == Len(added)
         IN  [status |-> "untracked", is_binary |-> FALSE,
              hunks |-> << [old_start |-> 0, old_lines |-> 0, new_start |-> 1,
                            new_lines |-> line_count] >>,
              before |-> <<>>, after |-> added,
              ranges |-> untracked_ranges(line_count)]

InitUntracked ==
    /\ untracked_bytes \in Strings(FileBytes, MaxContent)
    /\ untracked_diff = None
    /\ pc = "untracked"
    /\ now = 0
    /\ FilterIdle /\ RepoWatcherIdle /\ RefreshIdle
    /\ HandleIdle /\ DiscardIdle
    /\ AlignIdle /\ CollectIdle /\ DiffIdle /\ BinaryIdle /\ MatchIdle /\ IdemIdle
    /\ ReviewIdle

\* get_untracked_file_diff is called: the repository or the file cannot be
\* read and the call returns the error, or it returns the FileDiff
GetUntrackedFileDiff ==
    /\ pc = "untracked"
    /\ \E readable \in BOOLEAN :
          IF readable
          THEN /\ untracked_diff' = Some(get_untracked_file_diff(untracked_bytes))
               /\ pc' = "returned"
          ELSE /\ untracked_diff' = None
               /\ pc' = "failed"
    /\ UNCHANGED untracked_bytes
    /\ UNCHANGED <<now, filterVars, repoWatcherVars, refreshVars, handleVars,
                   discardVars>>
    /\ UNCHANGED <<alignVars, collectVars, diffVars, binaryVars, matchVars,
                   reassembled, reviewVars>>

NextUntracked == GetUntrackedFileDiff

SpecUntracked == InitUntracked /\ [][NextUntracked]_vars

----------------------------------------------------------------------------
(* What the claims speak of *)

\* the length a side counts as: an absent or binary side counts as 0
SideLen(f) == IF f.kind = "text" THEN f.lines ELSE 0

before_len == SideLen(before)
after_len == SideLen(after)

\* The before spans start at 0, each next one starts where the previous one
\* ended, and the last one ends at n (and no span at all covers only n = 0).
BeforeCovered(as, n) ==
    IF as = <<>>
    THEN n = 0
    ELSE /\ as[1].before.start = 0
         /\ \A i \in 1..(Len(as) - 1) : as[i + 1].before.start = as[i].before.end
         /\ as[Len(as)].before.end = n

AfterCovered(as, n) ==
    IF as = <<>>
    THEN n = 0
    ELSE /\ as[1].after.start = 0
         /\ \A i \in 1..(Len(as) - 1) : as[i + 1].after.start = as[i].after.end
         /\ as[Len(as)].after.end = n

IsChanged(a) == a.changed

\* The caller contract: ascending, non-overlapping, within bounds on both sides.
WellFormed(hs, bl, al) ==
    /\ \A i \in 1..Len(hs) :
          /\ hs[i].old_start + hs[i].old_lines <= bl
          /\ hs[i].new_start + hs[i].new_lines <= al
    /\ \A i \in 1..(Len(hs) - 1) :
          /\ hs[i].old_start + hs[i].old_lines <= hs[i + 1].old_start
          /\ hs[i].new_start + hs[i].new_lines <= hs[i + 1].new_start

\* the loop of the call is entered, and one of its u32 subtractions goes below
\* zero or one of its u32 additions exceeds u32
ArithmeticFaults ==
    /\ ~(before_len = 0 /\ after_len = 0)
    /\ \E n \in 1..Len(hunks) :
          LET st == HunkLoop(hunks, n - 1, FALSE)
          IN  GapUnderflows(st, hunks[n]) \/ EndOverflows(hunks[n])

----------------------------------------------------------------------------
(* The claims *)

\* C1: for a hunk list that is ascending, non-overlapping and within bounds on
\* both sides, the call returns, and the returned list covers the before side
\* exactly (first span starts at 0, each next span starts where the previous
\* ended, the last ends at before_len) and the after side likewise.
C1_ExhaustiveCoverage ==
    (pc # "call" /\ WellFormed(hunks, before_len, after_len)) =>
        /\ pc = "returned"
        /\ BeforeCovered(alignments, before_len)
        /\ AfterCovered(alignments, after_len)

\* two hunks with a gap before, between and after them
C1_Witness ==
    /\ pc = "returned"
    /\ WellFormed(hunks, before_len, after_len)
    /\ Len(hunks) = 2
    /\ Len(alignments) = 5

\* C2: for a well-formed hunk list (the empty one included), every returned
\* alignment with changed = false has before.len() = after.len().
C2_UnchangedLength ==
    (pc = "returned" /\ WellFormed(hunks, before_len, after_len)) =>
        \A i \in 1..Len(alignments) :
            ~alignments[i].changed =>
                SpanLen(alignments[i].before) = SpanLen(alignments[i].after)

\* C3: for any hunk list, the returned list is empty exactly when both sides
\* have length 0 (an absent or binary side counts as 0).
C3_Emptiness ==
    pc = "returned" =>
        (alignments = <<>> <=> (before_len = 0 /\ after_len = 0))

\* both sides empty, with hunks given all the same
C3_Witness ==
    /\ pc = "returned"
    /\ alignments = <<>>
    /\ hunks # <<>>
    /\ before.kind = "binary"

\* C4: with no hunks, an empty before side and n > 0 after lines give exactly
\* {before [0,0), after [0,n), changed}; an empty after side and n > 0 before
\* lines give exactly {before [0,n), after [0,0), changed}.
C4_PureAdditionDeletion ==
    (pc = "returned" /\ hunks = <<>>) =>
        /\ (before_len = 0 /\ after_len > 0) =>
              alignments = << [before |-> [start |-> 0, end |-> 0],
                               after |-> [start |-> 0, end |-> after_len],
                               changed |-> TRUE] >>
        /\ (after_len = 0 /\ before_len > 0) =>
              alignments = << [before |-> [start |-> 0, end |-> before_len],
                               after |-> [start |-> 0, end |-> 0],
                               changed |-> TRUE] >>

\* an added file of two lines
C4_Witness ==
    /\ pc = "returned"
    /\ hunks = <<>>
    /\ before = NoFile
    /\ after = TextFile(2)
    /\ Len(alignments) = 1

\* C5: with no hunks and both sides non-empty, the result is exactly one
\* alignment {before [0,before_len), after [0,after_len), not changed}.
C5_NoHunkFallback ==
    (pc = "returned" /\ hunks = <<>> /\ before_len > 0 /\ after_len > 0) =>
        alignments = << [before |-> [start |-> 0, end |-> before_len],
                         after |-> [start |-> 0, end |-> after_len],
                         changed |-> FALSE] >>

\* two texts of different lengths and no hunk
C5_Witness ==
    /\ pc = "returned"
    /\ hunks = <<>>
    /\ before = TextFile(2)
    /\ after = TextFile(3)
    /\ Len(alignments) = 1

\* C6: with a side non-empty and a non-empty hunk list, the changed alignments
\* of the result are the hunks, one each and in order, with
\* before = [old_start, old_start + old_lines) and
\* after = [new_start, new_start + new_lines).
C6_HunksAreChanged ==
    (pc = "returned" /\ hunks # <<>> /\ (before_len > 0 \/ after_len > 0)) =>
        LET ch == SelectSeq(alignments, IsChanged)
        IN  /\ Len(ch) = Len(hunks)
            /\ \A i \in 1..Len(hunks) :
                  /\ ch[i].before = [start |-> hunks[i].old_start,
                                     end |-> hunks[i].old_start + hunks[i].old_lines]
                  /\ ch[i].after = [start |-> hunks[i].new_start,
                                    end |-> hunks[i].new_start + hunks[i].new_lines]

\* two hunks of different sizes on the two sides, fillers around them
C6_Witness ==
    /\ pc = "returned"
    /\ Len(hunks) = 2
    /\ hunks[1].old_lines # hunks[1].new_lines
    /\ Len(SelectSeq(alignments, IsChanged)) = 2
    /\ Len(alignments) > 2

\* C7: whatever the hunk list (out of order, overlapping, out of bounds), a
\* returned list covers the before side and the after side exactly.
C7_CoverageMalformed ==
    pc = "returned" =>
        /\ BeforeCovered(alignments, before_len)
        /\ AfterCovered(alignments, after_len)

\* C8: whatever the hunk list, no u32 subtraction or addition of the call goes
\* out of range, and the call returns a list.
C8_NoPanic ==
    pc # "call" => (pc = "returned" /\ ~ArithmeticFaults)

\* C9: whatever the hunk list, every span of a returned alignment has
\* end >= start.
C9_SpanInvariant ==
    pc = "returned" =>
        \A i \in 1..Len(alignments) :
            /\ alignments[i].before.end >= alignments[i].before.start
            /\ alignments[i].after.end >= alignments[i].after.start

\* the conversion the claim states for a start position
ZeroIndexed(s) == IF s > 0 THEN s - 1 ELSE 0

\* the raw records reported while file f was the current one
ReportedFor(f) == SelectSeq(reported, LAMBDA r : r.file = f)

\* C10: each raw hunk becomes a Hunk whose old_start and new_start are each
\* s - 1 when s > 0 and 0 when s = 0, and whose old_lines and new_lines are the
\* raw ones.
C10_StartNormalization ==
    \A f \in 1..Len(file_changes) :
        LET rs == ReportedFor(f)
            hs == file_changes[f].hunks
        IN  /\ Len(hs) = Len(rs)
            /\ \A i \in 1..Len(hs) :
                  /\ hs[i].old_start = ZeroIndexed(rs[i].raw.old_start)
                  /\ hs[i].new_start = ZeroIndexed(rs[i].raw.new_start)
                  /\ hs[i].old_lines = rs[i].raw.old_lines
                  /\ hs[i].new_lines = rs[i].raw.new_lines

\* a record whose old side anchors an empty region (start 0) and whose new
\* side starts at line 2 has been normalised
C10_Witness ==
    \E f \in 1..Len(file_changes) :
        \E i \in 1..Len(file_changes[f].hunks) :
            /\ Len(ReportedFor(f)) >= i
            /\ ReportedFor(f)[i].raw.old_start = 0
            /\ ReportedFor(f)[i].raw.new_start = 2
            /\ ReportedFor(f)[i].raw.new_lines = 1
            /\ file_changes[f].hunks[i].old_start = 0
            /\ file_changes[f].hunks[i].new_start = 1

\* the hunks of hs are in ascending order by old_start
Ascending(hs) ==
    \A i \in 1..(Len(hs) - 1) : hs[i].old_start <= hs[i + 1].old_start

\* the raw records rs, as git handed them over
RawOf(rs) == [i \in 1..Len(rs) |-> rs[i].raw]

\* the hunk list of file f holds one Hunk per raw record reported since the
\* f-th delta callback and before the next one, in the order reported
AttachedInOrder(f) ==
    LET rs == ReportedFor(f)
        hs == file_changes[f].hunks
    IN  /\ Len(hs) = Len(rs)
        /\ \A i \in 1..Len(hs) : hs[i] = NormalizeHunk(rs[i].raw)

\* C11 (as stated): whatever raw hunk records are reported for a file, its
\* normalized hunk list is ascending by old_start, has exactly one Hunk per
\* raw record, and each hunk sits in the file whose delta callback most
\* recently preceded it.
C11_NormalizationOrdering ==
    \A f \in 1..Len(file_changes) :
        /\ Ascending(file_changes[f].hunks)
        /\ AttachedInOrder(f)

\* C11 (amended): the normalized hunk list of a file has exactly one Hunk per
\* raw record, in the order the records were reported, each in the file whose
\* delta callback most recently preceded it; it is ascending by old_start
\* whenever the raw records were reported in ascending order.
C11_OrderPreserved ==
    \A f \in 1..Len(file_changes) :
        /\ AttachedInOrder(f)
        /\ Ascending(RawOf(ReportedFor(f))) => Ascending(file_changes[f].hunks)

\* two deltas, and two records reported after the second one in ascending
\* order: both hunks sit in the second file, in that order
C11_Witness ==
    /\ Len(file_changes) = 2
    /\ file_changes[1].hunks = <<>>
    /\ Len(file_changes[2].hunks) = 2
    /\ Len(reported) = 2
    /\ reported[1].raw.old_start = 1
    /\ reported[2].raw.old_start = 2
    /\ file_changes[2].hunks[1].old_start = 0
    /\ file_changes[2].hunks[2].old_start = 1

\* C12: in every FileDiff of compute_diff and in the FileDiff of
\* get_file_diff, a binary side (is_binary true) comes with an empty
\* alignment (range) list.
C12_BinaryBypass ==
    /\ \A i \in 1..Len(result) :
          is_binary(result[i]) => result[i].alignments = <<>>
    /\ file_diff.is_binary => file_diff.ranges = <<>>

\* C13: is_binary_data(bytes) is true exactly when one of the first
\* min(len(bytes), 8192) bytes is 0x00; a slice whose only 0x00 bytes are at
\* offset 8192 or later is not binary, and the empty slice is not binary.
C13_BinaryClassification ==
    pc = "classified" =>
        /\ binary <=> (\E i \in 1..Len(bytes) : i <= 8192 /\ bytes[i] = 0)
        /\ (\A i \in 1..Len(bytes) : bytes[i] = 0 => i - 1 >= 8192) => ~binary
        /\ bytes = <<>> => ~binary

\* a slice whose only 0x00 byte is at offset 8192 has been classified as text
C13_Witness ==
    /\ pc = "classified"
    /\ Len(bytes) > 8192
    /\ bytes[8193] = 0
    /\ \A i \in 1..8192 : bytes[i] # 0
    /\ ~binary

\* the lines of ls at the 0-indexed positions [s.start, s.end)
SliceOf(ls, s) == [i \in 1..(s.end - s.start) |-> LineAt(ls, s.start + i - 1)]

\* span s lies within n lines
SpanWithin(s, n) == 0 <= s.start /\ s.start <= s.end /\ s.end <= n

\* C14: the alignment list assembled from the matches of the MatchFinder
\* covers [0, before_len) and [0, after_len) exactly, and each of its
\* changed = false alignments has equal lengths and identical lines.
C14_MatchDrivenInvariant ==
    pc = "assembled" =>
        /\ BeforeCovered(alignments, Len(before_lines))
        /\ AfterCovered(alignments, Len(after_lines))
        /\ \A i \in 1..Len(alignments) :
              ~alignments[i].changed =>
                  /\ SpanWithin(alignments[i].before, Len(before_lines))
                  /\ SpanWithin(alignments[i].after, Len(after_lines))
                  /\ SpanLen(alignments[i].before) = SpanLen(alignments[i].after)
                  /\ SliceOf(before_lines, alignments[i].before)
                        = SliceOf(after_lines, alignments[i].after)

\* C15: the matches never overlap on the before side nor on the after side,
\* each has length >= 1 and pairs identical lines, and the list is sorted by
\* before_start.
C15_MatchDisjointness ==
    /\ \A k \in 1..Len(matches) :
          /\ matches[k].length >= 1
          /\ matches[k].before_start + matches[k].length <= Len(before_lines)
          /\ matches[k].after_start + matches[k].length <= Len(after_lines)
          /\ \A i \in 0..(matches[k].length - 1) :
                LineAt(before_lines, matches[k].before_start + i)
                    = LineAt(after_lines, matches[k].after_start + i)
    /\ \A k \in 1..Len(matches) : \A l \in 1..Len(matches) :
          k # l =>
              /\ (matches[k].before_start..(matches[k].before_start + matches[k].length - 1))
                    \cap (matches[l].before_start..(matches[l].before_start + matches[l].length - 1))
                    = {}
              /\ (matches[k].after_start..(matches[k].after_start + matches[k].length - 1))
                    \cap (matches[l].after_start..(matches[l].after_start + matches[l].length - 1))
                    = {}
    /\ \A k \in 1..(Len(matches) - 1) :
          matches[k].before_start < matches[k + 1].before_start

\* the scan is over with two matches, the second of which stopped its
\* predecessor's extension or was stopped by a used position
C15_Witness ==
    /\ pc = "assembled"
    /\ Len(matches) = 2
    /\ matches[2].after_start < matches[1].after_start
    /\ matches[2].after_start + matches[2].length = matches[1].after_start
    /\ matches[2].before_start + matches[2].length < Len(before_lines)
    /\ LineAt(before_lines, matches[2].before_start + matches[2].length)
          = LineAt(after_lines, matches[1].after_start)

\* the after positions that hold the line a match starts with and were unused
\* when the k-th match was started
Available(k) ==
    { p \in 0..(Len(after_lines) - 1) :
        /\ LineAt(after_lines, p) = LineAt(before_lines, matches[k].before_start)
        /\ p \notin started[k] }

\* C16: every match starts at the smallest after position that holds the line
\* of its before_start and was unused when the match was started; for
\* before = [a,b,c,d] and after = [a,x,c,d] the result is [(0,0,1),(2,2,2)].
C16_LeftmostAvailable ==
    /\ \A k \in 1..Len(matches) :
          /\ matches[k].after_start \in Available(k)
          /\ \A p \in Available(k) : matches[k].after_start <= p
    /\ (pc = "assembled" /\ before_lines = <<"a", "b", "c", "d">>
                         /\ after_lines = <<"a", "x", "c", "d">>) =>
          matches = << [before_start |-> 0, after_start |-> 0, length |-> 1],
                       [before_start |-> 2, after_start |-> 2, length |-> 2] >>

\* a match was started where the leftmost occurrence of its line was used and
\* two later ones were not
C16_Witness ==
    \E k \in 1..Len(matches) :
        /\ Cardinality(Available(k)) >= 2
        /\ \E p \in started[k] :
              /\ LineAt(after_lines, p) = LineAt(before_lines, matches[k].before_start)
              /\ p < matches[k].after_start

\* C17: the assembler, re-run on the changed = false spans of a computed
\* alignment list as its match list and with the same before_len and
\* after_len, returns that alignment list again.
C17_AssemblerIdempotence ==
    (pc = "reassembled" /\ WellFormed(hunks, before_len, after_len)) =>
        reassembled = alignments

\* a review without reviewed paths, comments and edits
IsEmptyReview(r) == r.reviewed = <<>> /\ r.comments = <<>> /\ r.edits = <<>>

\* C18: after delete(id), whatever was marked, commented and edited on id
\* before, get(id) returns a review with empty reviewed, comments and edits
\* lists, and so does a get_or_create(id) that re-creates the review: no child
\* row of id is left.
C18_DeleteRemovesAll ==
    last.op = "delete" =>
        /\ IsEmptyReview(get_with_conn(store, last.id))
        /\ IsEmptyReview(get_with_conn(InsertReview(store, last.id), last.id))
        /\ \A i \in 1..Len(store.reviewed_files) :
              ~OfReview(store.reviewed_files[i], last.id)
        /\ \A i \in 1..Len(store.comments) : ~OfReview(store.comments[i], last.id)
        /\ \A i \in 1..Len(store.edits) : ~OfReview(store.edits[i], last.id)

\* a review with two child rows has just been deleted
C18_Witness ==
    /\ last.op = "delete"
    /\ last.rows = 2
    /\ ChildRows(store) = 0
    /\ ~ReviewExists(store, last.id)

\* how often x occurs in the list xs
Count(x, xs) == Len(SelectSeq(xs, LAMBDA y : y = x))

\* C19: a step of mark_reviewed(id, p) leaves p exactly once in
\* get(id).reviewed, however often it was marked before; a step of
\* unmark_reviewed(id, p) leaves p out of it; and unmarking a path that is not
\* marked returns Ok and changes no table.
C19_ReviewedIsSet ==
    [][ /\ last'.op = "mark_reviewed" =>
              Count(last'.arg, get_with_conn(store', last'.id).reviewed) = 1
        /\ last'.op = "unmark_reviewed" =>
              /\ Count(last'.arg, get_with_conn(store', last'.id).reviewed) = 0
              /\ Count(last'.arg, get_with_conn(store, last'.id).reviewed) = 0 =>
                    (last'.ok /\ store' = store)
      ]_vars

\* a path already marked has been marked again
C19_Witness ==
    /\ last.op = "mark_reviewed"
    /\ last.rows = 1
    /\ ChildRows(store) = 1
    /\ get_with_conn(store, last.id).reviewed = <<last.arg>>

\* the comments cs, the content of those with id comment_id replaced by t
WithContent(cs, comment_id, t) ==
    [i \in 1..Len(cs) |->
        IF cs[i].id = comment_id THEN [cs[i] EXCEPT !.content = t] ELSE cs[i]]

\* the entries of xs (comments or edits) whose id is not x
WithoutId(xs, x) == SelectSeq(xs, LAMBDA y : y.id # x)

\* C20: a step of add_comment(id, c) that returns Ok leaves c, content
\* included, in the review of id; update_comment(cid, t) sets the content of
\* the comment cid to t and changes nothing else in any review;
\* delete_comment(cid) removes the comment cid and nothing else; add_edit and
\* delete_edit do the same for edits; and each update or delete returns Ok
\* (so with an unknown id it changes no review).
C20_CommentEditLifecycle ==
    [][ /\ (last'.op = "add_comment" /\ last'.ok) =>
              Count(last'.arg, get_with_conn(store', last'.id).comments) = 1
        /\ (last'.op = "add_edit" /\ last'.ok) =>
              Count(last'.arg, get_with_conn(store', last'.id).edits) = 1
        /\ last'.op = "update_comment" =>
              /\ last'.ok
              /\ \A id \in DiffIds :
                    LET old == get_with_conn(store, id)
                        new == get_with_conn(store', id)
                    IN  /\ new.comments = WithContent(old.comments, last'.arg, last'.text)
                        /\ new.reviewed = old.reviewed
                        /\ new.edits = old.edits
        /\ last'.op = "delete_comment" =>
              /\ last'.ok
              /\ \A id \in DiffIds :
                    LET old == get_with_conn(store, id)
                        new == get_with_conn(store', id)
                    IN  /\ new.comments = WithoutId(old.comments, last'.arg)
                        /\ new.reviewed = old.reviewed
                        /\ new.edits = old.edits
        /\ last'.op = "delete_edit" =>
              /\ last'.ok
              /\ \A id \in DiffIds :
                    LET old == get_with_conn(store, id)
                        new == get_with_conn(store', id)
                    IN  /\ new.edits = WithoutId(old.edits, last'.arg)
                        /\ new.reviewed = old.reviewed
                        /\ new.comments = old.comments
      ]_vars

\* one of two comments has just got a new content, the other keeps its own
C20_Witness ==
    /\ last.op = "update_comment"
    /\ Len(store.comments) = 2
    /\ \E i \in 1..2 : \E j \in 1..2 :
          /\ store.comments[i].id = last.arg
          /\ store.comments[i].content = last.text
          /\ store.comments[j].id # last.arg
          /\ store.comments[j].content # last.text

\* the event's path lies in the watched repository
InsideRoot ==
    /\ Len(repo_root) <= Len(event_path)
    /\ \A i \in 1..Len(repo_root) : event_path[i] = repo_root[i]

\* the names of the path below the root
Relative ==
    [i \in 1..(Len(event_path) - Len(repo_root)) |-> event_path[i + Len(repo_root)]]

\* the path is the file n of .git/; it lies under .git/; under .git/refs/;
\* under the directory d of the root
IsGitFile(n) == Relative = << <<".git">>, <<n>> >>
UnderGit == Len(Relative) >= 2 /\ Relative[1] = <<".git">>
UnderRefs == UnderGit /\ Len(Relative) >= 3 /\ Relative[2] = <<"refs">>
UnderDir(d) == Len(Relative) >= 2 /\ Relative[1] = <<d>>
KeyGitPath == IsGitFile("index") \/ IsGitFile("HEAD") \/ UnderRefs

\* the last name of the path ends in ext
NameEndsIn(ext) ==
    /\ event_path # <<>>
    /\ LET name == event_path[Len(event_path)] IN name[Len(name)] = ext

\* both implementations answered b
Both(b) ==
    /\ pc = "filtered"
    /\ triggers # None
    /\ triggers[1].watcher = b
    /\ triggers[1].diff_watcher = b

\* C26 as stated: in both implementations a path outside repo_root does not
\* trigger; .git/index, .git/HEAD and every path under .git/refs/ trigger;
\* every other path under .git/ does not; no path under node_modules/ or
\* target/ and no path ending in .pyc triggers; src/main.rs triggers.
C26_PathFilterCoreRules ==
    pc = "filtered" =>
        /\ ~InsideRoot => Both(FALSE)
        /\ InsideRoot =>
            /\ KeyGitPath => Both(TRUE)
            /\ (UnderGit /\ ~KeyGitPath) => Both(FALSE)
            /\ (UnderDir("node_modules") \/ UnderDir("target")) => Both(FALSE)
            /\ NameEndsIn(".pyc") => Both(FALSE)
            /\ Relative = << <<"src">>, <<"main", ".rs">> >> => Both(TRUE)

\* C26, amended: the same rules, the rule for .pyc read for the paths that
\* are not under .git/refs/ (a path under .git/refs/ triggers whatever its
\* name ends in).
C26_CoreRulesOutsideRefs ==
    pc = "filtered" =>
        /\ ~InsideRoot => Both(FALSE)
        /\ InsideRoot =>
            /\ KeyGitPath => Both(TRUE)
            /\ (UnderGit /\ ~KeyGitPath) => Both(FALSE)
            /\ (UnderDir("node_modules") \/ UnderDir("target")) => Both(FALSE)
            /\ (NameEndsIn(".pyc") /\ ~UnderRefs) => Both(FALSE)
            /\ Relative = << <<"src">>, <<"main", ".rs">> >> => Both(TRUE)

\* a .pyc file under .git/refs/ has triggered in both implementations
C26_Witness ==
    /\ pc = "filtered"
    /\ InsideRoot
    /\ UnderRefs
    /\ NameEndsIn(".pyc")
    /\ Both(TRUE)

\* C28: no path whose name ends in ".lock" triggers, in either
\* implementation, lock files under .git/refs/ included.
C28_NoLockFileTriggers ==
    (pc = "filtered" /\ NameEndsIn(".lock")) => Both(FALSE)

\* where the before and the after cursor stand when hunk i is reached: at the
\* ends of hunk i - 1, or at 0; and where they stand after the last hunk
CursorBefore(i) ==
    IF i = 1 THEN 0 ELSE hunks[i - 1].old_start + hunks[i - 1].old_lines
CursorAfter(i) ==
    IF i = 1 THEN 0 ELSE hunks[i - 1].new_start + hunks[i - 1].new_lines

\* a cursor is behind the start of hunk i; a cursor is short of its length
\* after the last hunk
GapAt(i) ==
    CursorBefore(i) < hunks[i].old_start \/ CursorAfter(i) < hunks[i].new_start
TrailingGap ==
    \/ CursorBefore(Len(hunks) + 1) < before_len
    \/ CursorAfter(Len(hunks) + 1) < after_len

\* the index of the alignment of hunk i when each gap has its filler
HunkIndex(i) == i + Cardinality({j \in 1..i : GapAt(j)})

\* fillers stand exactly at the gaps: before hunk i when a cursor is behind
\* its start, after the last hunk when a cursor is short of its length;
\* nowhere else, and none is empty on both sides
FillersExactlyForGaps ==
    /\ Len(alignments) =
         Len(hunks) + Cardinality({j \in 1..Len(hunks) : GapAt(j)})
                    + (IF TrailingGap THEN 1 ELSE 0)
    /\ \A i \in 1..Len(hunks) :
          /\ HunkIndex(i) <= Len(alignments)
          /\ alignments[HunkIndex(i)].changed
          /\ GapAt(i) =>
                alignments[HunkIndex(i) - 1] =
                    Alignment(Span(CursorBefore(i), hunks[i].old_start),
                              Span(CursorAfter(i), hunks[i].new_start), FALSE)
    /\ TrailingGap =>
          alignments[Len(alignments)] =
              Alignment(Span(CursorBefore(Len(hunks) + 1), before_len),
                        Span(CursorAfter(Len(hunks) + 1), after_len), FALSE)
    /\ \A k \in 1..Len(alignments) :
          ~alignments[k].changed =>
              (SpanLen(alignments[k].before) > 0 \/ SpanLen(alignments[k].after) > 0)

\* C27 as stated: for every well-formed non-empty hunk list the call emits a
\* filler before a hunk exactly when a cursor is behind the hunk's start and
\* a trailing filler exactly when a cursor is short of its length, so the
\* output has (hunks) + (non-empty gaps) alignments, and no unchanged
\* alignment is empty on both sides.
C27_FillersForGaps ==
    (pc = "returned" /\ hunks # <<>> /\ WellFormed(hunks, before_len, after_len))
        => FillersExactlyForGaps

\* C27, amended: the same, for a well-formed non-empty hunk list and two
\* sides that are not both empty.
C27_FillersForGapsNonEmpty ==
    (/\ pc = "returned"
     /\ hunks # <<>>
     /\ WellFormed(hunks, before_len, after_len)
     /\ (before_len > 0 \/ after_len > 0))
        => FillersExactlyForGaps

\* the first hunk starts at 0, the second ends where both files end, and
\* the only filler is the one for the gap between them
C27_Witness ==
    /\ pc = "returned"
    /\ WellFormed(hunks, before_len, after_len)
    /\ Len(hunks) = 2
    /\ ~GapAt(1) /\ GapAt(2) /\ ~TrailingGap
    /\ Len(alignments) = 3
    /\ ~alignments[2].changed

\* C25: any two files-changed events of one RepoWatcher are at least 500 ms
\* apart, whatever the sequence of start, stop and debounced batches.
C25_EmitThrottle ==
    \A i \in 1..Len(emitted) : \A j \in 1..Len(emitted) :
        i < j => emitted[j] - emitted[i] >= 500

\* a step in which thread t begins a provider.get_status call
BeginsGetStatus(t) == thread[t].pc = "fetch" /\ thread'[t].pc = "fetching"

\* a step in which thread t's provider.get_status call ends
EndsGetStatus(t) == thread[t].pc = "fetching" /\ thread'[t].pc # "fetching"

\* a step in which thread t's get_status call ends with an error
FailsGetStatus(t) == EndsGetStatus(t) /\ thread'[t].ended = "fetch_failed"

\* C21: the provider's mode is sticky: a git2 call that took more than
\* 500 ms stores the CLI mode, each call uses the mode stored when it
\* begins, the mode goes back to git2 only in reset(), the first call begun
\* after reset() uses git2, and a call that ends with an error leaves the
\* mode as it was.
C21_StickyMode ==
    [][/\ \A t \in Threads :
            /\ BeginsGetStatus(t) => thread'[t].used_cli = use_cli
            /\ BeginsGetStatus(t) /\ ~called => ~thread'[t].used_cli
            /\ (/\ EndsGetStatus(t) /\ ~FailsGetStatus(t)
                /\ ~thread[t].used_cli
                /\ thread'[t].duration > 500) => use_cli'
            /\ FailsGetStatus(t) => use_cli' = use_cli
       /\ (use_cli /\ ~use_cli') => thread["command"].pc = "reset"
      ]_vars

StartReturnsOk ==
    /\ thread["command"].op = "start"
    /\ thread'["command"].pc = "idle"
    /\ thread'["command"].ret = "Ok"

\* C29: a start(repo) that returns Ok has fetched the status of repo in its
\* own handle_change, whatever the callback thread did meanwhile.
C29_InitialRefreshInStart ==
    [][StartReturnsOk => thread["command"].fetched = thread["command"].arg]_vars

\* the greater of two numbers
Greater(x, y) == IF x >= y THEN x ELSE y

\* a step in which thread t's handle_change makes its throttle check
ChecksThrottle(t) == thread[t].pc = "throttle" /\ thread'[t].pc # "throttle"

\* twice the time since last_refresh is less than twice
\* max(1000 ms, 1.5 x last_duration)
InsideThrottleInterval ==
    2 * (now - state.last_refresh) < Greater(2000, 3 * state.last_duration)

\* C22: a handle_change that makes its throttle check less than
\* max(1000 ms, 1.5 x last_duration) after last_refresh returns there: it
\* begins no fetch, emits no event and leaves the RefreshState as it was.
C22_ThrottledCallDoesNothing ==
    [][\A t \in Threads :
          (ChecksThrottle(t) /\ InsideThrottleInterval) =>
              /\ thread'[t].pc = "idle"
              /\ thread'[t].ended = "throttled"
              /\ UNCHANGED <<state, events, fetches>>
      ]_vars

\* C22: the callback's handle_change was throttled a second or more after
\* the last refresh, that is by 1.5 times a last duration
C22_Witness ==
    /\ thread["callback"].ended = "throttled"
    /\ now - state.last_refresh >= 1000

\* C30: when get_status fails in handle_change the call returns there: the
\* RefreshState, with last_refresh, last_duration and
\* slow_notification_sent, is as it was and no event is emitted.
C30_FailedFetchChangesNothing ==
    [][\A t \in Threads :
          (FailsGetStatus(t) /\ thread[t].op # "force_refresh") =>
              /\ thread'[t].pc = "idle"
              /\ UNCHANGED <<state, events>>
      ]_vars

\* C30: a fetch of the callback's handle_change failed after time had
\* passed, and the state holds no refresh of that time
C30_Witness ==
    /\ thread["callback"].ended = "fetch_failed"
    /\ now > 0
    /\ state.last_refresh < now

\* a step in which force_refresh is called and reads a path
BeginsForceRefresh ==
    thread["command"].pc = "idle" /\ thread'["command"].op = "force_refresh"

\* a step in which force_refresh returns
ReturnsFromForceRefresh ==
    thread["command"].op = "force_refresh" /\ thread'["command"].pc = "idle"

\* force_refresh without a watched repository: the error, and nothing else
ForceRefreshWithoutRepo ==
    (/\ thread["command"].pc = "idle"
     /\ thread'["command"].ended = "no_repo"
     /\ thread'["command"] # thread["command"]) =>
        /\ state.repo_path = <<>>
        /\ thread'["command"].ret = "No repository is being watched"
        /\ UNCHANGED <<state, events, fetches>>

\* force_refresh with a watched repository goes to its fetch whatever the
\* time, records the time and the duration of a fetch that succeeded, and
\* then emits status-updated
ForceRefreshBypassesThrottle ==
    /\ BeginsForceRefresh =>
          /\ state.repo_path # <<>>
          /\ thread'["command"].pc = "fetch"
    /\ (/\ thread["command"].op = "force_refresh"
        /\ thread["command"].pc = "update"
        /\ thread'["command"].pc # "update") =>
          /\ state'.last_refresh = now
          /\ state'.last_duration = thread["command"].duration
    /\ (/\ thread["command"].op = "force_refresh"
        /\ thread["command"].pc = "emit"
        /\ thread'["command"].pc # "emit") =>
          /\ thread["command"].recorded
          /\ events'.status_updated = events.status_updated + 1

\* C24 as stated: force_refresh on a watched repository always returns
\* having fetched, recorded and emitted; without a repository it returns
\* the error and nothing changes.
C24_ForceRefreshAlwaysRefreshes ==
    [][/\ ForceRefreshWithoutRepo
       /\ ForceRefreshBypassesThrottle
       /\ ReturnsFromForceRefresh =>
             /\ thread["command"].pc = "emit"
             /\ thread'["command"].ret = "Ok"
      ]_vars

\* C24: force_refresh on a watched repository always fetches, whatever the
\* time, and when the fetch succeeds it records last_refresh and
\* last_duration, emits status-updated and returns Ok; when the fetch fails
\* it returns the error and neither records nor emits; without a repository
\* it returns its error and nothing changes.
C24_ForceRefreshRefreshesOnSuccess ==
    [][/\ ForceRefreshWithoutRepo
       /\ ForceRefreshBypassesThrottle
       /\ ReturnsFromForceRefresh =>
             \/ /\ thread["command"].pc = "emit"
                /\ thread'["command"].ret = "Ok"
             \/ /\ thread["command"].pc = "fetching"
                /\ thread'["command"].ret = "Err"
                /\ UNCHANGED <<state, events>>
      ]_vars

\* C24: start refreshed and force_refresh refreshed again, both at time 0
\* and with no callback in between
C24_Witness ==
    /\ thread["command"].ended = "forced"
    /\ thread["callback"] = NoLocals
    /\ events.status_updated = 2
    /\ now = 0
    /\ state.last_refresh = 0

\* the same outcome of init_store and of get_store: both a store, or both
\* the same error
SameOutcome(r, q) == r.ok = q.ok /\ (~r.ok => r.val = q.val)

\* a get_store made before any init_store was called returned the error
\* "Review store not initialized"
GetStoreBeforeInit ==
    \A t \in Callers :
        (caller[t].op = "get_store" /\ ~caller[t].seen_called) =>
            caller[t].ret = << [ok |-> FALSE, val |-> "Review store not initialized"] >>

\* C31 as stated: get_store before any init_store returns "Review store not
\* initialized", every get_store made after the first init_store returned
\* returns that call's outcome, and no step replaces a value STORE holds.
C31_InitializedOnce ==
    [][/\ GetStoreBeforeInit'
       /\ \A t \in Callers :
             (caller'[t].op = "get_store" /\ caller'[t].seen.returned # <<>>) =>
                 SameOutcome(caller'[t].ret[1], caller'[t].seen.returned[1])
       /\ STORE # <<>> => STORE' = STORE
      ]_vars

\* C31: get_store before any init_store returns "Review store not
\* initialized", every get_store made after the first init_store that got
\* the app data directory returned returns that call's outcome, and no step
\* replaces a value STORE holds.
C31_InitializedOnceWithDirectory ==
    [][/\ GetStoreBeforeInit'
       /\ \A t \in Callers :
             (caller'[t].op = "get_store" /\ caller'[t].seen.opened # <<>>) =>
                 SameOutcome(caller'[t].ret[1], caller'[t].seen.opened[1])
       /\ STORE # <<>> => STORE' = STORE
      ]_vars

\* C31: the first init_store failed to open the database, a later one ran on
\* the other thread, and a get_store after both returned the first error
C31_Witness ==
    /\ first_init.returned = << [ok |-> FALSE, val |-> "database is locked"] >>
    /\ caller["setup"].op = "init_store"
    /\ caller["setup"].pc = "idle"
    /\ caller["command"].op = "get_store"
    /\ caller["command"].seen.opened # <<>>
    /\ caller["command"].ret = first_init.returned

\* the lines of the working file before the call and of the base blob
CurrentLines == str_lines(current_content)
BaseLines == str_lines(base_content)

\* the connection's spans lie within the two files
ConnectionWithinFiles ==
    /\ SpanWithin(connection[1].after, Len(CurrentLines))
    /\ SpanWithin(connection[1].before, Len(BaseLines))

\* the lines the region's revert is to leave
RevertedLines ==
    SubSeq(CurrentLines, 1, connection[1].after.start)
    \o SubSeq(BaseLines, connection[1].before.start + 1, connection[1].before.end)
    \o SubSeq(CurrentLines, connection[1].after.end + 1, Len(CurrentLines))

\* C32: for a connection whose spans lie within the two files,
\* discard_region writes a file whose lines are the current lines before
\* the after span, the base lines of the before span and the current lines
\* after the after span, so its line count is current_len - after.len() +
\* before.len().
C32_RevertsExactlyOneRegion ==
    (pc # "discard" /\ pc # "failed" /\ connection # <<>> /\ ConnectionWithinFiles) =>
        /\ pc = "written"
        /\ str_lines(written[1]) = RevertedLines
        /\ Len(str_lines(written[1])) =
               Len(CurrentLines)
               - (connection[1].after.end - connection[1].after.start)
               + (connection[1].before.end - connection[1].before.start)

\* the ranges rs follow one another from 0 to before_end on the before side
\* and from 0 to after_end on the after side
RangesPartition(rs, before_end, after_end) ==
    /\ \A i \in 1..Len(rs) :
          /\ rs[i].before.start = (IF i = 1 THEN 0 ELSE rs[i - 1].before.end)
          /\ rs[i].after.start = (IF i = 1 THEN 0 ELSE rs[i - 1].after.end)
          /\ rs[i].before.start <= rs[i].before.end
          /\ rs[i].after.start <= rs[i].after.end
    /\ (IF rs = <<>> THEN 0 ELSE rs[Len(rs)].before.end) = before_end
    /\ (IF rs = <<>> THEN 0 ELSE rs[Len(rs)].after.end) = after_end

\* C33: the ranges of a non-binary untracked file with n lines partition
\* before [0,0) and after [0,n), are the one changed range
\* {before [0,0), after [0,n)} when n > 0, and are empty exactly when n = 0.
C33_UntrackedRanges ==
    (pc = "returned" /\ untracked_diff # <<>> /\ ~untracked_diff[1].is_binary) =>
        LET n == Len(untracked_diff[1].after)
            rs == untracked_diff[1].ranges
        IN  /\ RangesPartition(rs, 0, n)
            /\ n > 0 =>
                  /\ Len(rs) = 1
                  /\ rs[1].changed
                  /\ rs[1].before = [start |-> 0, end |-> 0]
                  /\ rs[1].after = [start |-> 0, end |-> n]
            /\ (rs = <<>>) <=> (n = 0)

====
